---------------------------- MODULE Spec2Model ----------------------------
(***************************************************************************)
(* Model of the Seattle Utilities bill parser (scraper/parser.py).         *)
(*                                                                         *)
(* Text.  A Python string is modelled as a sequence of atoms.  An atom is  *)
(* a lexeme (a run of non-blank characters such as "Oct", "01,", "5.00"),  *)
(* a single space " " or a newline "\n".  The lexicon below is chosen so   *)
(* that every regular expression of the parser matches a string of atoms   *)
(* exactly where Python's re matches the rendered string: no pattern can   *)
(* begin or end inside a lexeme of the lexicon.                            *)
(*                                                                         *)
(* Numbers.  float(x) of a two-decimal lexeme is its value in cents with a *)
(* sign bit (IEEE negation of 0.0 gives -0.0).  Sums and math.isclose are  *)
(* computed on the exact cent values.                                      *)
(***************************************************************************)
EXTENDS Integers, Sequences, FiniteSets, TLC

(***************************************************************************)
(* Lexicon: the lexemes the inputs are built from, by character class.     *)
(***************************************************************************)
SP == " "
NL == "\n"

\* [A-Z][a-z]{2}
Cap3Lex == {"Oct", "Nov", "Dec", "Fee", "Gal", "Tax"}
\* \d{2},
DayLex == {"01,", "15,", "30,"}
\* \d{4}
YearLex == {"2024", "2025"}
\* \d+\.\d{2} with one integer digit
CostLex == {"0.00", "1.00", "2.00", "3.00", "4.00", "5.00", "7.00"}
\* \d+.\d{2} whose middle character is no dot: float() raises ValueError
LooseLex == {"5,00"}
\* \d+ of one or two digits
DigitLex == {"2", "32"}
\* [A-Za-z]+ of more than three letters, none a frequency keyword
WordLex == {"Water", "Sewer", "Solid", "Waste", "Adjustments", "Usage",
            "Base", "Late", "Garbage", "Meter", "Number", "Service",
            "Category", "Current", "billing", "DATE", "WATER",
            "ADJUSTMENT", "Page"}
\* [A-Za-z]+ of two or three letters, not capitalised as a month is
ShortLex == {"DUE", "per", "CCF", "CR"}
\* (Weekly|Week|Other|Every) with re.IGNORECASE
FreqLex == {"Weekly", "Week", "Other", "Every", "weekly"}
\* \w+ mixing digits and letters
MixLex == {"1X", "M1", "O00934"}
\* single punctuation characters
PunctLex == {":", "@", "$", "*", "-", "/", "#"}

Lexemes == Cap3Lex \cup DayLex \cup YearLex \cup CostLex \cup LooseLex
           \cup DigitLex \cup WordLex \cup ShortLex \cup FreqLex
           \cup MixLex \cup PunctLex
Atoms == Lexemes \cup {SP, NL}

\* [A-Za-z]+ as one lexeme
AlphaLex == Cap3Lex \cup WordLex \cup ShortLex \cup FreqLex
\* \w{3} as one lexeme
W3Lex == Cap3Lex \cup {"DUE", "per", "CCF"}
\* \w+ as one lexeme
WLex == AlphaLex \cup DigitLex \cup MixLex \cup YearLex
\* \d+.\d{2} as one lexeme ("." is any character)
NumLex == CostLex \cup LooseLex \cup YearLex
\* \s
WsAtoms == {SP, NL}
\* lexemes whose lower case contains "adjustment"
AdjustLex == {"Adjustments", "ADJUSTMENT"}

(***************************************************************************)
(* Python's re on strings of atoms: a backtracking matcher that returns    *)
(* the first match in priority order (greedy before lazy alternatives,     *)
(* left alternative first), with named groups.                             *)
(***************************************************************************)
\* one atom of the set cls
Cls(cls) == [op |-> "cls", set |-> cls]
\* the literal text lit (a sequence of atoms)
Lit(lit) == [op |-> "lit", atoms |-> lit]
\* one atom of each of the sets, in a row
Classes(sets) == [op |-> "classes", sets |-> sets]
\* r1 r2 ... rn
Cat(rs) == [op |-> "cat", rs |-> rs]
\* [cls]* (greedy) or [cls]*? (lazy): every repetition in the parser's
\* patterns is of a single character class
Star(cls, greedy) ==
    [op |-> "star", set |-> cls, greedy |-> greedy, min |-> 0]
\* [cls]+ and [cls]+?
Plus(cls, greedy) ==
    [op |-> "star", set |-> cls, greedy |-> greedy, min |-> 1]
\* r? (greedy: taken when it can be)
Opt(r) == [op |-> "opt", r |-> r]
\* (?P<name>r)
Grp(name, r) == [op |-> "grp", name |-> name, r |-> r]
\* \1, by the name of the group
Ref(name) == [op |-> "ref", name |-> name]
\* ^ under re.MULTILINE (multi) or not
Bol(multi) == [op |-> "bol", multi |-> multi]
\* $ (not re.MULTILINE): the end, or before a final newline
Eol == [op |-> "eol"]

NoMatch == [ok |-> FALSE]

SubSeqOf(s, i, j) == IF j < i THEN <<>> ELSE SubSeq(s, i, j)

\* whether the atoms lit occur in s at position i
OccursAt(lit, s, i) ==
    /\ i + Len(lit) - 1 <= Len(s)
    /\ \A k \in 1..Len(lit) : s[i + k - 1] = lit[k]

\* how many atoms of s, from position i on, are in cls without a break
RunLen(cls, s, i) ==
    LET stops == {j \in i..Len(s) : s[j] \notin cls}
    IN IF stops = {} THEN Len(s) + 1 - i
       ELSE (CHOOSE j \in stops : \A k \in stops : j <= k) - i

\* the patterns that match a fixed number of atoms
IsFixed(h) == h.op \in {"cls", "lit", "classes"}
\* that number
FixedLen(h) ==
    CASE h.op = "cls" -> 1
      [] h.op = "lit" -> Len(h.atoms)
      [] h.op = "classes" -> Len(h.sets)
\* whether such a pattern matches s at position i
FixedAt(h, s, i) ==
    CASE h.op = "cls" -> i <= Len(s) /\ s[i] \in h.set
      [] h.op = "lit" -> OccursAt(h.atoms, s, i)
      [] h.op = "classes" ->
           /\ i + Len(h.sets) - 1 <= Len(s)
           /\ \A k \in 1..Len(h.sets) : s[i + k - 1] \in h.sets[k]

RECURSIVE MatchFrom(_, _, _, _)
RECURSIVE FirstAt(_, _, _, _, _, _)
\* The first way, in priority order, to match the stack st of patterns
\* (each followed by the next) against s from position i, given the groups
\* captured so far; caps maps a group's name to <<first, last + 1>>.
MatchFrom(st, s, i, caps) ==
    IF st = <<>> THEN [ok |-> TRUE, end |-> i, caps |-> caps]
    ELSE LET h == Head(st)
             t == Tail(st)
         IN CASE IsFixed(h) ->
                   IF FixedAt(h, s, i)
                   THEN MatchFrom(t, s, i + FixedLen(h), caps) ELSE NoMatch
              [] h.op = "cat" -> MatchFrom(h.rs \o t, s, i, caps)
              [] h.op = "star" ->
                   \* greedy: the longest run first; lazy: the shortest
                   FirstAt(t, s, caps, i + h.min, i + RunLen(h.set, s, i),
                           ~h.greedy)
              [] h.op = "opt" ->
                   LET with == MatchFrom(<<h.r>> \o t, s, i, caps)
                   IN IF with.ok THEN with ELSE MatchFrom(t, s, i, caps)
              [] h.op = "grp" /\ IsFixed(h.r) ->
                   IF FixedAt(h.r, s, i)
                   THEN MatchFrom(t, s, i + FixedLen(h.r),
                                  (h.name :> <<i, i + FixedLen(h.r)>>) @@ caps)
                   ELSE NoMatch
              [] h.op = "grp" /\ ~IsFixed(h.r) ->
                   MatchFrom(<<h.r, [op |-> "end", name |-> h.name,
                                      from |-> i]>> \o t, s, i, caps)
              [] h.op = "end" ->
                   MatchFrom(t, s, i, (h.name :> <<h.from, i>>) @@ caps)
              [] h.op = "ref" ->
                   LET g == SubSeqOf(s, caps[h.name][1], caps[h.name][2] - 1)
                   IN IF OccursAt(g, s, i)
                      THEN MatchFrom(t, s, i + Len(g), caps) ELSE NoMatch
              [] h.op = "bol" ->
                   IF i = 1 \/ (h.multi /\ s[i - 1] = NL)
                   THEN MatchFrom(t, s, i, caps) ELSE NoMatch
              [] h.op = "eol" ->
                   IF i = Len(s) + 1 \/ (i = Len(s) /\ s[i] = NL)
                   THEN MatchFrom(t, s, i, caps) ELSE NoMatch

\* The match of st at the first position of lo..hi where it matches, taking
\* the positions in ascending order (up) or in descending order; the
\* interval is halved so that the search stays shallow.
FirstAt(st, s, caps, lo, hi, up) ==
    IF lo > hi THEN NoMatch
    ELSE IF lo = hi THEN MatchFrom(st, s, lo, caps)
    ELSE LET mid == (lo + hi) \div 2
             low == FirstAt(st, s, caps, lo, mid, up)
             high == FirstAt(st, s, caps, mid + 1, hi, up)
         IN IF up THEN (IF low.ok THEN low ELSE high)
            ELSE (IF high.ok THEN high ELSE low)

NoCaps == <<>>

\* the match object of a match m of a pattern inside group "0"
MatchObject(m) ==
    IF m.ok THEN [ok |-> TRUE, start |-> m.caps["0"][1], end |-> m.end,
                  caps |-> m.caps]
    ELSE NoMatch

\* re.match / pattern.match: the match of r at the start of s
ReMatch(r, s) == MatchFrom(<<r>>, s, 1, NoCaps)

\* pattern.search(s, pos): the leftmost match of r in s at or after i;
\* start is where it begins
SearchFrom(r, s, i) ==
    MatchObject(FirstAt(<<Grp("0", r)>>, s, NoCaps, i, Len(s) + 1, TRUE))

\* re.search
ReSearch(r, s) == SearchFrom(r, s, 1)

RECURSIVE FindIterFrom(_, _, _)
RECURSIVE FindIterAfter(_, _, _)
\* re.finditer: the non-overlapping matches of r in s, left to right (no
\* pattern of the parser matches the empty string)
FindIterFrom(r, s, i) == FindIterAfter(r, s, SearchFrom(r, s, i))
\* the matches from the next match m on
FindIterAfter(r, s, m) ==
    IF m.ok THEN <<m>> \o FindIterFrom(r, s, m.end) ELSE <<>>

ReFindIter(r, s) == FindIterFrom(r, s, 1)

\* match.group(name) is not None
HasGroup(m, name) == name \in DOMAIN m.caps
\* match.group(name), for a group that took part (the empty text otherwise)
Group(m, s, name) ==
    IF HasGroup(m, name)
    THEN SubSeqOf(s, m.caps[name][1], m.caps[name][2] - 1)
    ELSE <<>>
\* the truth value Python gives match.group(name): neither None nor ""
Truthy(m, s, name) == HasGroup(m, name) /\ Group(m, s, name) # <<>>

(***************************************************************************)
(* The patterns of scraper/parser.py.                                      *)
(***************************************************************************)
\* \w{3} \d{2}, \d{4}
DateRe == Classes(<<W3Lex, {SP}, DayLex, {SP}, YearLex>>)
\* [A-Z][a-z]{2} \d{2}, \d{4}
CapDateRe == Classes(<<Cap3Lex, {SP}, DayLex, {SP}, YearLex>>)
\* \s*CR
CreditRe == Cat(<<Star(WsAtoms, TRUE), Lit(<<"CR">>)>>)

HEADER_REGEX ==
    Cat(<<Lit(<<"DUE", SP, "DATE", ":", SP>>),
          Grp("due_date", Cat(<<Plus(AlphaLex, TRUE), Lit(<<SP>>),
                                Cls(DayLex), Lit(<<SP>>), Cls(YearLex)>>)),
          Star(Atoms, TRUE),
          Lit(<<"Current", SP, "billing", ":", SP>>),
          Grp("total", Cls(CostLex))>>)

\* the pattern with any name, not \\1, in the trailer
SERVICE_REGEX_any_trailer ==
    Cat(<<Grp("service", Plus(AlphaLex \cup {SP}, TRUE)),
          Grp("bill", Plus(Atoms, FALSE)),
          Lit(<<"Current", SP>>), Plus(AlphaLex \cup {SP}, TRUE),
          Lit(<<":", SP>>),
          Grp("total", Cls(CostLex)),
          Opt(Grp("service_credit", CreditRe))>>)

SERVICE_REGEX ==
    Cat(<<Grp("service", Plus(AlphaLex \cup {SP}, TRUE)),
          Grp("bill", Plus(Atoms, FALSE)),
          Lit(<<"Current", SP>>), Ref("service"), Lit(<<":", SP>>),
          Grp("total", Cls(CostLex)),
          Opt(Grp("service_credit", CreditRe))>>)

USAGE_REGEX ==
    Cat(<<Grp("start_date", DateRe), Lit(<<SP>>),
          Grp("end_date", DateRe), Lit(<<SP>>),
          Grp("usage", Cls(NumLex)), Opt(Lit(<<"*">>)),
          Opt(Cat(<<Lit(<<SP>>), Grp("start_meter", Cls(NumLex)),
                    Opt(Lit(<<"*">>)), Lit(<<SP>>),
                    Grp("end_meter", Cls(NumLex)), Opt(Lit(<<"*">>))>>))>>)

\* (\w* after "Category: " would take the leading digits of a cost lexeme;
\* the texts modelled put a word, or nothing, there)
METER_REGEX ==
    Cat(<<Lit(<<"Meter", SP, "Number", ":", SP>>),
          Grp("meter_number", Plus(WLex \cup {"-"}, TRUE)),
          Lit(<<SP, "Service", SP, "Category", ":">>), Opt(Lit(<<SP>>)),
          Grp("service_category", Star(WLex, TRUE))>>)

\* compiled with re.MULTILINE by _parse_items
ITEM_REGEX ==
    Cat(<<Bol(TRUE),
          Opt(Cat(<<Grp("start", DateRe), Lit(<<SP>>), Grp("end", DateRe),
                    Star({SP}, TRUE)>>)),
          Grp("description", Plus(Atoms \ {NL}, FALSE)),
          Star(WsAtoms, TRUE),
          Opt(Cat(<<Grp("date", DateRe), Star({SP}, TRUE)>>)),
          Opt(Cat(<<Grp("usage", Cls(CostLex)),
                    Lit(<<SP, "CCF", SP, "@", SP, "$">>),
                    Grp("rate", Cls(NumLex)),
                    Lit(<<SP, "per", SP, "CCF", SP>>)>>)),
          Grp("cost", Cls(CostLex)),
          Opt(Grp("credit", CreditRe))>>)

TRASH_REGEX ==
    Cat(<<Bol(FALSE), Grp("count", Cls(DigitLex)), Lit(<<"-">>),
          Grp("description", Plus(WLex \cup {SP, "/"}, TRUE)),
          Lit(<<SP>>), Grp("size", Cls(DigitLex)), Lit(<<SP, "Gal">>)>>)

(***************************************************************************)
(* Numbers: float(), int(), sum() and math.isclose().                      *)
(***************************************************************************)
\* the value, in cents, of a lexeme float() accepts
CentsOf(lex) ==
    CASE lex = "0.00" -> 0
      [] lex = "1.00" -> 100
      [] lex = "2.00" -> 200
      [] lex = "3.00" -> 300
      [] lex = "4.00" -> 400
      [] lex = "5.00" -> 500
      [] lex = "7.00" -> 700
      [] lex = "2024" -> 202400
      [] lex = "2025" -> 202500

\* whether float(text) returns (it raises ValueError otherwise)
FloatOk(text) == Len(text) = 1 /\ text[1] \in CostLex \cup YearLex
\* float(text): a sign bit and a magnitude in cents
Float(text) == [neg |-> FALSE, cents |-> CentsOf(text[1])]
\* -x
Negate(x) == [neg |-> ~x.neg, cents |-> x.cents]
\* the number a float stands for, in cents (-0.0 is 0)
Val(x) == IF x.neg THEN -x.cents ELSE x.cents

\* int(text) of a \d+ lexeme
IntOf(text) == CASE text[1] = "2" -> 2 [] text[1] = "32" -> 32

Abs(n) == IF n < 0 THEN -n ELSE n
Max(a, b) == IF a >= b THEN a ELSE b

\* math.isclose(a, b, rel_tol = num / den) with abs_tol = 0, on cents
IsClose(a, b, num, den) ==
    a = b \/ Abs(a - b) <= (num * Max(Abs(a), Abs(b))) \div den

\* the default rel_tol of math.isclose, 1e-09, as 1 / RelTolDen
RelTolDen == 1000000000
\* rel_tol = 0.05 as BillTolNum / BillTolDen
BillTolNum == 5
BillTolDen == 100

RECURSIVE SumVals(_)
\* sum(...) of a sequence of floats, in cents
SumVals(xs) == IF xs = <<>> THEN 0 ELSE Val(Head(xs)) + SumVals(Tail(xs))

(***************************************************************************)
(* Strings.                                                                *)
(***************************************************************************)
RECURSIVE LStrip(_)
LStrip(s) == IF s # <<>> /\ Head(s) \in WsAtoms THEN LStrip(Tail(s)) ELSE s
RECURSIVE RStrip(_)
RStrip(s) ==
    IF s # <<>> /\ s[Len(s)] \in WsAtoms
    THEN RStrip(SubSeqOf(s, 1, Len(s) - 1)) ELSE s
\* str.strip()
Strip(s) == LStrip(RStrip(s))

\* str.replace("\n", " ")
ReplaceNl(s) == [k \in 1..Len(s) |-> IF s[k] = NL THEN SP ELSE s[k]]

\* sub in s
Contains(s, sub) == \E i \in 1..(Len(s) + 1) : OccursAt(sub, s, i)

RECURSIVE SplitNl(_)
\* str.split('\n'): the lines of s, at least one
SplitNl(s) ==
    IF \A k \in 1..Len(s) : s[k] # NL THEN <<s>>
    ELSE LET k == CHOOSE j \in 1..Len(s) :
                     s[j] = NL /\ \A h \in 1..(j - 1) : s[h] # NL
         IN <<SubSeqOf(s, 1, k - 1)>> \o SplitNl(SubSeqOf(s, k + 1, Len(s)))

RECURSIVE JoinWith(_, _)
\* sep.join(parts)
JoinWith(sep, parts) ==
    IF parts = <<>> THEN <<>>
    ELSE IF Len(parts) = 1 THEN parts[1]
    ELSE parts[1] \o sep \o JoinWith(sep, Tail(parts))

(***************************************************************************)
(* BillParser._normalize_solid_waste_text                                  *)
(***************************************************************************)
\* ^[A-Z][a-z]{2} \d{2}, \d{4}\s*[A-Z][a-z]{2} \d{2}, \d{4}
two_dates_pattern == Cat(<<CapDateRe, Star(WsAtoms, TRUE), CapDateRe>>)
\* ^[A-Z][a-z]{2} \d{2}, \d{4}
single_date_pattern == CapDateRe
\* ^\d+\.\d{2}$
cost_only_pattern == Cat(<<Cls(CostLex), Eol>>)
\* ^(Weekly|Week|Other|Every)$, re.IGNORECASE
continuation_pattern == Cat(<<Cls(FreqLex), Eol>>)
\* \d+\.\d{2}$
trailing_cost_pattern == Cat(<<Cls(CostLex), Eol>>)

Last(seq) == seq[Len(seq)]
\* the list left as it was
KeepLast(seq, new) == seq

\* normalized[-1] = new
SetLast(seq, new) == [seq EXCEPT ![Len(seq)] = new]

is_continuation(line, normalized) ==
    \/ ReMatch(cost_only_pattern, line).ok
    \/ ReMatch(continuation_pattern, line).ok
    \/ /\ ReMatch(single_date_pattern, line).ok
       /\ ~ReMatch(two_dates_pattern, Last(normalized)).ok
       /\ ReMatch(single_date_pattern, Last(normalized)).ok

\* trailing_cost_pattern.match in place of .search
prev_starts_with_cost(prev_line) ==
    ReMatch(trailing_cost_pattern, prev_line).ok

prev_has_cost(prev_line) == ReSearch(trailing_cost_pattern, prev_line).ok

\* the turn with the test for a previous line without cost put first
NormalizeLineJoinFirst(normalized, raw) ==
    LET line == Strip(raw)
    IN IF line = <<>> THEN normalized
       ELSE IF normalized = <<>> THEN Append(normalized, line)
       ELSE IF ~prev_has_cost(Last(normalized))
            THEN SetLast(normalized, Last(normalized) \o <<SP>> \o line)
       ELSE IF ReMatch(two_dates_pattern, line).ok
            THEN Append(normalized, line)
       ELSE IF is_continuation(line, normalized)
            THEN SetLast(normalized, Last(normalized) \o <<SP>> \o line)
       ELSE Append(normalized, line)

\* one turn of the loop over the lines: normalized after the line raw
NormalizeLine(normalized, raw) ==
    LET line == Strip(raw)
    IN IF line = <<>> THEN normalized
       ELSE IF ReMatch(two_dates_pattern, line).ok
            THEN Append(normalized, line)
       ELSE IF normalized = <<>> THEN Append(normalized, line)
       ELSE IF is_continuation(line, normalized)
            THEN SetLast(normalized, Last(normalized) \o <<SP>> \o line)
       ELSE IF ~prev_has_cost(Last(normalized))
            THEN SetLast(normalized, Last(normalized) \o <<SP>> \o line)
       ELSE Append(normalized, line)

RECURSIVE NormalizeLines(_, _)
\* the loop: normalized after the lines in order
NormalizeLines(normalized, lines) ==
    IF lines = <<>> THEN normalized
    ELSE NormalizeLines(NormalizeLine(normalized, Head(lines)), Tail(lines))

normalize_solid_waste_text(text) ==
    JoinWith(<<NL>>, NormalizeLines(<<>>, SplitNl(text)))

(***************************************************************************)
(* BillParser._parse_trash, _parse_items, _parse_meter                     *)
(***************************************************************************)
\* a function's outcome: a returned value, or the exception it raised
Return(v) == [raised |-> "", value |-> v]
Raise(exc) == [raised |-> exc, value |-> <<>>]

\* {key: value} if cond else {}
KeyIf(cond, key, value) == IF cond THEN key :> value ELSE <<>>

\* the item rebuilt from the match alone, without **item
TrashOfMatchOnly(item, m) ==
    IF m.ok
    THEN [description |-> Strip(Group(m, item.description, "description")),
          size |-> IntOf(Group(m, item.description, "size")),
          count |-> IntOf(Group(m, item.description, "count"))]
    ELSE item

\* the item after "if m:" for the match m of TRASH_REGEX
TrashOf(item, m) ==
    IF m.ok
    THEN [description |-> Strip(Group(m, item.description, "description")),
          size |-> IntOf(Group(m, item.description, "size")),
          count |-> IntOf(Group(m, item.description, "count"))] @@ item
    ELSE item

parse_trash(item) == TrashOf(item, ReSearch(TRASH_REGEX, item.description))

\* the item built with no regard to the credit marker
ItemOfUnsigned(m, bill_str) ==
    parse_trash(
      [description |-> Strip(ReplaceNl(Group(m, bill_str, "description"))),
       cost |-> Float(Group(m, bill_str, "cost"))]
      @@ KeyIf(Truthy(m, bill_str, "start"), "start",
               Group(m, bill_str, "start"))
      @@ KeyIf(Truthy(m, bill_str, "end"), "end", Group(m, bill_str, "end"))
      @@ KeyIf(Truthy(m, bill_str, "date"), "date",
               Group(m, bill_str, "date"))
      @@ KeyIf(Truthy(m, bill_str, "usage"), "usage",
               Float(Group(m, bill_str, "usage")))
      @@ KeyIf(Truthy(m, bill_str, "rate"), "rate",
               Float(Group(m, bill_str, "rate"))))

\* the item built with every optional entry, matched or not: those of the
\* groups that took no part in the match hold None (the empty value here)
ItemOfNullable(m, bill_str) ==
    parse_trash(
      [description |-> Strip(ReplaceNl(Group(m, bill_str, "description"))),
       cost |-> IF HasGroup(m, "credit")
                THEN Negate(Float(Group(m, bill_str, "cost")))
                ELSE Float(Group(m, bill_str, "cost")),
       start |-> Group(m, bill_str, "start"),
       end |-> Group(m, bill_str, "end"),
       date |-> Group(m, bill_str, "date"),
       usage |-> IF Truthy(m, bill_str, "usage")
                 THEN Float(Group(m, bill_str, "usage")) ELSE <<>>,
       rate |-> IF Truthy(m, bill_str, "rate")
                THEN Float(Group(m, bill_str, "rate")) ELSE <<>>])

\* the item _parse_items builds from one match m of ITEM_REGEX in bill_str
ItemOf(m, bill_str) ==
    LET cost == Float(Group(m, bill_str, "cost"))
        is_credit == HasGroup(m, "credit")
    IN parse_trash(
         [description |-> Strip(ReplaceNl(Group(m, bill_str, "description"))),
          cost |-> IF is_credit THEN Negate(cost) ELSE cost]
         @@ KeyIf(Truthy(m, bill_str, "start"), "start",
                  Group(m, bill_str, "start"))
         @@ KeyIf(Truthy(m, bill_str, "end"), "end", Group(m, bill_str, "end"))
         @@ KeyIf(Truthy(m, bill_str, "date"), "date",
                  Group(m, bill_str, "date"))
         @@ KeyIf(Truthy(m, bill_str, "usage"), "usage",
                  Float(Group(m, bill_str, "usage")))
         @@ KeyIf(Truthy(m, bill_str, "rate"), "rate",
                  Float(Group(m, bill_str, "rate"))))

\* whether a float() of the item's match raises ValueError
ItemRaises(m, bill_str) ==
    \/ ~FloatOk(Group(m, bill_str, "cost"))
    \/ Truthy(m, bill_str, "usage") /\ ~FloatOk(Group(m, bill_str, "usage"))
    \/ Truthy(m, bill_str, "rate") /\ ~FloatOk(Group(m, bill_str, "rate"))

\* the loop of _parse_items over the matches ms of ITEM_REGEX
ItemsLoop(ms, bill_str) ==
    IF \E k \in 1..Len(ms) : ItemRaises(ms[k], bill_str)
    THEN Raise("ValueError")
    ELSE Return([k \in 1..Len(ms) |-> ItemOf(ms[k], bill_str)])

parse_items(bill_str) == ItemsLoop(ReFindIter(ITEM_REGEX, bill_str), bill_str)

\* the dictionary _parse_meter returns for the match meter of METER_REGEX
MeterOf(meter, bill_str) ==
    IF meter.ok
    THEN [meter_number |-> Group(meter, bill_str, "meter_number"),
          service_category |-> Group(meter, bill_str, "service_category")]
    ELSE <<>>

parse_meter(bill_str) == MeterOf(ReSearch(METER_REGEX, bill_str), bill_str)

(***************************************************************************)
(* BillParser._parse_service_bill                                          *)
(***************************************************************************)
\* an element of the list re.split returns: a text, or None for a group
\* that took no part in the match
SomeText(text) == [none |-> FALSE, text |-> text]
NoText == [none |-> TRUE, text |-> <<>>]

\* the groups of USAGE_REGEX, in the order re.split lists them
UsageGroups == <<"start_date", "end_date", "usage", "start_meter",
                 "end_meter">>

RECURSIVE SplitFrom(_, _, _, _)
RECURSIVE SplitAt(_, _, _, _, _)
\* re.split(r, s) from position i on: the text before each match, then the
\* match's groups, and the text after the last match
SplitFrom(r, groups, s, i) == SplitAt(r, groups, s, i, SearchFrom(r, s, i))
\* the same, m being the next match
SplitAt(r, groups, s, i, m) ==
    IF ~m.ok THEN <<SomeText(SubSeqOf(s, i, Len(s)))>>
    ELSE <<SomeText(SubSeqOf(s, i, m.start - 1))>>
         \o [g \in 1..Len(groups) |->
               IF HasGroup(m, groups[g])
               THEN SomeText(Group(m, s, groups[g])) ELSE NoText]
         \o SplitFrom(r, groups, s, m.end)

ReSplit(r, groups, s) == SplitFrom(r, groups, s, 1)

\* the length of the batches of _parse_service_bill
BatchLen == 6

\* itertools.batched(xs, n)
Batched(xs, n) ==
    [b \in 1..((Len(xs) + n - 1) \div n) |->
       SubSeqOf(xs, (b - 1) * n + 1,
                IF b * n <= Len(xs) THEN b * n ELSE Len(xs))]

\* whether a float() of one batch raises ValueError
MeterGroupRaises(meter_group) ==
    \/ ~FloatOk(meter_group[3].text)
    \/ ~meter_group[4].none /\ meter_group[4].text # <<>>
         /\ ~FloatOk(meter_group[4].text)
    \/ ~meter_group[5].none /\ meter_group[5].text # <<>>
         /\ ~FloatOk(meter_group[5].text)

\* float(text), or 0.0 where float raises
FloatOrZero(text) ==
    IF FloatOk(text) THEN Float(text) ELSE [neg |-> FALSE, cents |-> 0]

\* the dictionary with a number that is no valid decimal defaulted to 0.0
MeterGroupDefaulting(meter_group, items, meter) ==
    IF items.raised # ""
    THEN Raise("ValueError")
    ELSE Return(
           meter
           @@ KeyIf(~meter_group[5].none /\ meter_group[5].text # <<>>,
                    "end_meter", FloatOrZero(meter_group[5].text))
           @@ KeyIf(~meter_group[4].none /\ meter_group[4].text # <<>>,
                    "start_meter", FloatOrZero(meter_group[4].text))
           @@ [items |-> items.value,
               start_date |-> meter_group[1].text,
               end_date |-> meter_group[2].text,
               usage |-> FloatOrZero(meter_group[3].text)])

\* the dictionary with the two dates of the marker taken for each other
MeterGroupSwapped(meter_group, items, meter) ==
    IF items.raised # "" \/ MeterGroupRaises(meter_group)
    THEN Raise("ValueError")
    ELSE Return(
           meter
           @@ KeyIf(~meter_group[5].none /\ meter_group[5].text # <<>>,
                    "end_meter", Float(meter_group[5].text))
           @@ KeyIf(~meter_group[4].none /\ meter_group[4].text # <<>>,
                    "start_meter", Float(meter_group[4].text))
           @@ [items |-> items.value,
               start_date |-> meter_group[2].text,
               end_date |-> meter_group[1].text,
               usage |-> Float(meter_group[3].text)])

\* the dictionary appended to groups for one batch, given what
\* _parse_items and _parse_meter made of its items_str
MeterGroupOf(meter_group, items, meter) ==
    IF items.raised # "" \/ MeterGroupRaises(meter_group)
    THEN Raise("ValueError")
    ELSE Return(
           meter
           @@ KeyIf(~meter_group[5].none /\ meter_group[5].text # <<>>,
                    "end_meter", Float(meter_group[5].text))
           @@ KeyIf(~meter_group[4].none /\ meter_group[4].text # <<>>,
                    "start_meter", Float(meter_group[4].text))
           @@ [items |-> items.value,
               start_date |-> meter_group[1].text,
               end_date |-> meter_group[2].text,
               usage |-> Float(meter_group[3].text)])

\* one turn of "for meter_group in batched(splits[1:], 6)"
MeterGroup(meter_group) ==
    MeterGroupOf(meter_group, parse_items(meter_group[6].text),
                 parse_meter(meter_group[6].text))

\* the list of the dictionaries built, unless building one raised
Collect(built) ==
    IF \E b \in 1..Len(built) : built[b].raised # ""
    THEN Raise("ValueError")
    ELSE Return([b \in 1..Len(built) |-> built[b].value])

\* the else branch with no regard to the meter line of the text
SingleGroupItemsOnly(items, meter) ==
    IF items.raised # "" THEN Raise("ValueError")
    ELSE Return([items |-> items.value])

\* the else branch: [{"items": ..., **self._parse_meter(items_str)}]
SingleGroup(items, meter) ==
    IF items.raised # "" THEN Raise("ValueError")
    ELSE Return(meter @@ [items |-> items.value])

\* the branches of _parse_service_bill on splits
GroupsOf(splits) ==
    IF Len(splits) > 1
    THEN Collect([b \in 1..Len(Batched(Tail(splits), BatchLen)) |->
                    MeterGroup(Batched(Tail(splits), BatchLen)[b])])
    ELSE Collect(<<SingleGroup(parse_items(splits[1].text),
                               parse_meter(splits[1].text))>>)

parse_service_bill(bill_str) ==
    GroupsOf(ReSplit(USAGE_REGEX, UsageGroups, bill_str))

(***************************************************************************)
(* BillParser._parse_header, _parse_services                               *)
(***************************************************************************)
\* what _parse_header does with the match of HEADER_REGEX
HeaderOf(match, header_str) ==
    IF ~match.ok THEN Raise("ValueError")
    ELSE Return([due_date |-> Group(match, header_str, "due_date"),
                 total |-> Float(Group(match, header_str, "total"))])

parse_header(header_str) ==
    HeaderOf(ReSearch(HEADER_REGEX, header_str), header_str)

\* services[name] = data on a dictionary kept as the sequence of its
\* entries in insertion order: a key already there keeps its place
DictSet(services, name, data) ==
    IF \E k \in 1..Len(services) : services[k].name = name
    THEN [k \in 1..Len(services) |->
            IF services[k].name = name THEN [name |-> name] @@ data
            ELSE services[k]]
    ELSE Append(services, [name |-> name] @@ data)

\* the text _parse_service_bill is given for one match of SERVICE_REGEX
ServiceBillOf(match, bill_str) ==
    LET service_name == Group(match, bill_str, "service")
        service_bill == Group(match, bill_str, "bill")
    IN IF Contains(service_name, <<"Solid", SP, "Waste">>)
       THEN normalize_solid_waste_text(service_bill)
       ELSE service_bill

\* the total stored when the credit marker is ignored
ServiceTotalUnsigned(match, bill_str) == Float(Group(match, bill_str, "total"))

\* the total stored for one match of SERVICE_REGEX
ServiceTotalOf(match, bill_str) ==
    LET service_total == Float(Group(match, bill_str, "total"))
        is_service_credit == HasGroup(match, "service_credit")
    IN IF is_service_credit THEN Negate(service_total) ELSE service_total

RECURSIVE ServicesLoop(_, _, _)
RECURSIVE ServicesTurn(_, _, _, _)
\* the loop of _parse_services over the matches ms, from the dictionary
\* services
ServicesLoop(services, ms, bill_str) ==
    IF ms = <<>> THEN Return(services)
    ELSE ServicesTurn(services, ms, bill_str,
                      parse_service_bill(ServiceBillOf(Head(ms), bill_str)))
\* one turn of it, parts being what _parse_service_bill made of the match
ServicesTurn(services, ms, bill_str, parts) ==
    IF parts.raised # "" THEN Raise(parts.raised)
    ELSE ServicesLoop(
           DictSet(services, Group(Head(ms), bill_str, "service"),
                   [total |-> ServiceTotalOf(Head(ms), bill_str),
                    parts |-> parts.value]),
           Tail(ms), bill_str)

parse_services(bill_str) ==
    ServicesLoop(<<>>, ReFindIter(SERVICE_REGEX, bill_str), bill_str)

(***************************************************************************)
(* BillParser._validate_bill                                               *)
(***************************************************************************)
RECURSIVE Flatten(_)
\* the concatenation of a sequence of sequences
Flatten(seqs) == IF seqs = <<>> THEN <<>> ELSE Head(seqs) \o Flatten(Tail(seqs))

\* [item for part in service_data["parts"] for item in part["items"]]
ItemsOf(service_data) ==
    Flatten([k \in 1..Len(service_data.parts) |-> service_data.parts[k].items])

\* sum(item["cost"] for part in ... for item in ...)
ItemsTotal(service_data) ==
    SumVals([k \in 1..Len(ItemsOf(service_data)) |->
               ItemsOf(service_data)[k].cost])

\* sum(service_data["total"] for ... in bill["services"].items())
ServicesTotal(services) ==
    SumVals([k \in 1..Len(services) |-> services[k].total])

\* "adjustment" in service.lower()
IsAdjustment(service) == \E k \in 1..Len(service) : service[k] \in AdjustLex

\* the record of log.warning("Bill total mismatch: ...")
BillTotalWarning(bill_total, bill) ==
    [kind |-> "bill_total", services_sum |-> bill_total,
     header_total |-> bill.total]

\* the record of log.warning("Adjustment parsing incomplete for ...")
AdjustmentWarning(service_data) ==
    [kind |-> "adjustment", service |-> service_data.name,
     items_found |-> [k \in 1..Len(ItemsOf(service_data)) |->
                        [description |-> ItemsOf(service_data)[k].description,
                         cost |-> ItemsOf(service_data)[k].cost]],
     found_total |-> ItemsTotal(service_data),
     expected_total |-> service_data.total]

\* a comparison that finds every service to reconcile
NoMismatch(service_data) == FALSE

\* not math.isclose(service_total, service_data["total"])
ServiceMismatch(service_data) ==
    ~IsClose(ItemsTotal(service_data), Val(service_data.total), 1, RelTolDen)

\* what validating went through: the records logged, and the exception
\* raised with the service it names ("" and <<>> when none is)
Validated(logged, raised, service) ==
    [logged |-> logged, raised |-> raised, service |-> service]

RECURSIVE ValidateStrict(_, _)
\* the loop with the assert applied to every service, adjustments too
ValidateStrict(services, logged) ==
    IF services = <<>> THEN Validated(logged, "", <<>>)
    ELSE IF ServiceMismatch(Head(services))
         THEN Validated(logged, "AssertionError", Head(services).name)
         ELSE ValidateStrict(Tail(services), logged)

RECURSIVE ValidateSilent(_, _)
\* the loop with the adjustment branch logging nothing
ValidateSilent(services, logged) ==
    IF services = <<>> THEN Validated(logged, "", <<>>)
    ELSE IF ~IsAdjustment(Head(services).name) /\ ServiceMismatch(Head(services))
         THEN Validated(logged, "AssertionError", Head(services).name)
         ELSE ValidateSilent(Tail(services), logged)

RECURSIVE ValidateServices(_, _)
\* the loop of _validate_bill over the services, after logging logged
ValidateServices(services, logged) ==
    IF services = <<>> THEN Validated(logged, "", <<>>)
    ELSE LET service_data == Head(services)
         IN IF IsAdjustment(service_data.name)
            THEN ValidateServices(
                   Tail(services),
                   IF ServiceMismatch(service_data)
                   THEN Append(logged, AdjustmentWarning(service_data))
                   ELSE logged)
            ELSE IF ServiceMismatch(service_data)
                 THEN Validated(logged, "AssertionError", service_data.name)
                 ELSE ValidateServices(Tail(services), logged)

\* the validator asserting the bill total, as BillManager._validate_bill
\* does
validate_bill_asserting(bill) ==
    IF ~IsClose(ServicesTotal(bill.services), Val(bill.total), 1, RelTolDen)
    THEN Validated(<<>>, "AssertionError", <<>>)
    ELSE ValidateServices(bill.services, <<>>)

\* the validation that compares the totals only when there are services
validate_bill_some_services(bill) ==
    ValidateServices(
      bill.services,
      IF bill.services # <<>>
         /\ ~IsClose(ServicesTotal(bill.services), Val(bill.total),
                     BillTolNum, BillTolDen)
      THEN <<BillTotalWarning(ServicesTotal(bill.services), bill)>> ELSE <<>>)

validate_bill(bill) ==
    LET bill_total == ServicesTotal(bill.services)
    IN ValidateServices(
         bill.services,
         IF ~IsClose(bill_total, Val(bill.total), BillTolNum, BillTolDen)
         THEN <<BillTotalWarning(bill_total, bill)>> ELSE <<>>)

(***************************************************************************)
(* BillParser._visitor_body and the two text blocks of parse               *)
(***************************************************************************)
\* x > 240
LeftMargin == 240
BodyFonts == {"Arial-BoldMT", "ArialMT"}

\* font_dict["/BaseFont"].split("+")[-1] if font_dict else None; a
\* /BaseFont is given as the sequence of its parts between "+" signs
FontName(font_dict) ==
    IF font_dict.none THEN "None" ELSE Last(font_dict.BaseFont)

\* text.replace("O00934", "")
RemoveArtifact(text) == SelectSeq(text, LAMBDA a : a # "O00934")

\* the visitor that also takes the fragments at the margin itself
visitor_body_from_margin(parts, frag) ==
    IF frag.x >= LeftMargin /\ FontName(frag.font_dict) \in BodyFonts
    THEN Append(parts, [text |-> RemoveArtifact(frag.text),
                        font |-> FontName(frag.font_dict), x |-> frag.x])
    ELSE parts

\* parts after the visitor saw the fragment frag
visitor_body(parts, frag) ==
    IF frag.x > LeftMargin /\ FontName(frag.font_dict) \in BodyFonts
    THEN Append(parts, [text |-> RemoveArtifact(frag.text),
                        font |-> FontName(frag.font_dict), x |-> frag.x])
    ELSE parts

RECURSIVE ExtractText(_, _)
\* page.extract_text(visitor_text = partial(self._visitor_body, parts))
ExtractText(parts, page) ==
    IF page = <<>> THEN parts
    ELSE ExtractText(visitor_body(parts, Head(page)), Tail(page))

RECURSIVE ExtractPages(_, _)
\* for page in pages: page.extract_text(...)
ExtractPages(parts, pages) ==
    IF pages = <<>> THEN parts
    ELSE ExtractPages(ExtractText(parts, Head(pages)), Tail(pages))

\* "\n".join([part["text"].strip() for part in parts])
TextOf(parts) ==
    JoinWith(<<NL>>, [k \in 1..Len(parts) |-> Strip(parts[k].text)])

(***************************************************************************)
(* BillManager._parse_bill of src/services/bill_manager.py, the parser     *)
(* without credits.  Its HEADER_REGEX, USAGE_REGEX, METER_REGEX and        *)
(* TRASH_REGEX, and its _visitor_body, _parse_header, _parse_service_bill, *)
(* _parse_trash and _parse_meter read as those of scraper/parser.py.       *)
(***************************************************************************)
bm_SERVICE_REGEX ==
    Cat(<<Grp("service", Plus(AlphaLex \cup {SP}, TRUE)),
          Grp("bill", Plus(Atoms, FALSE)),
          Lit(<<"Current", SP>>), Ref("service"), Lit(<<":", SP>>),
          Grp("total", Cls(CostLex))>>)

bm_ITEM_REGEX ==
    Cat(<<Bol(TRUE),
          Opt(Cat(<<Grp("start", DateRe), Lit(<<SP>>), Grp("end", DateRe),
                    Star({SP}, TRUE)>>)),
          Grp("description", Plus(Atoms \ {NL}, FALSE)),
          Star(WsAtoms, TRUE),
          Opt(Cat(<<Grp("date", DateRe), Star({SP}, TRUE)>>)),
          Opt(Cat(<<Grp("usage", Cls(CostLex)),
                    Lit(<<SP, "CCF", SP, "@", SP, "$">>),
                    Grp("rate", Cls(NumLex)),
                    Lit(<<SP, "per", SP, "CCF", SP>>)>>)),
          Grp("cost", Cls(CostLex))>>)

\* the item BillManager._parse_items builds from one match m
bm_ItemOf(m, bill_str) ==
    parse_trash(
      [description |-> Strip(ReplaceNl(Group(m, bill_str, "description"))),
       cost |-> Float(Group(m, bill_str, "cost"))]
      @@ KeyIf(Truthy(m, bill_str, "start"), "start",
               Group(m, bill_str, "start"))
      @@ KeyIf(Truthy(m, bill_str, "end"), "end", Group(m, bill_str, "end"))
      @@ KeyIf(Truthy(m, bill_str, "date"), "date",
               Group(m, bill_str, "date"))
      @@ KeyIf(Truthy(m, bill_str, "usage"), "usage",
               Float(Group(m, bill_str, "usage")))
      @@ KeyIf(Truthy(m, bill_str, "rate"), "rate",
               Float(Group(m, bill_str, "rate"))))

\* the loop of BillManager._parse_items over the matches ms
bm_ItemsLoop(ms, bill_str) ==
    IF \E k \in 1..Len(ms) : ItemRaises(ms[k], bill_str)
    THEN Raise("ValueError")
    ELSE Return([k \in 1..Len(ms) |-> bm_ItemOf(ms[k], bill_str)])

bm_parse_items(bill_str) ==
    bm_ItemsLoop(ReFindIter(bm_ITEM_REGEX, bill_str), bill_str)

\* one turn of "for meter_group in batched(splits[1:], 6)"
bm_MeterGroup(meter_group) ==
    MeterGroupOf(meter_group, bm_parse_items(meter_group[6].text),
                 parse_meter(meter_group[6].text))

\* the branches of BillManager._parse_service_bill on splits
bm_GroupsOf(splits) ==
    IF Len(splits) > 1
    THEN Collect([b \in 1..Len(Batched(Tail(splits), BatchLen)) |->
                    bm_MeterGroup(Batched(Tail(splits), BatchLen)[b])])
    ELSE Collect(<<SingleGroup(bm_parse_items(splits[1].text),
                               parse_meter(splits[1].text))>>)

bm_parse_service_bill(bill_str) ==
    bm_GroupsOf(ReSplit(USAGE_REGEX, UsageGroups, bill_str))

RECURSIVE bm_ServicesLoop(_, _, _)
RECURSIVE bm_ServicesTurn(_, _, _, _)
\* the loop of BillManager._parse_services over the matches ms
bm_ServicesLoop(services, ms, bill_str) ==
    IF ms = <<>> THEN Return(services)
    ELSE bm_ServicesTurn(services, ms, bill_str,
                         bm_parse_service_bill(Group(Head(ms), bill_str,
                                                     "bill")))
\* one turn of it, parts being what _parse_service_bill made of the match
bm_ServicesTurn(services, ms, bill_str, parts) ==
    IF parts.raised # "" THEN Raise(parts.raised)
    ELSE bm_ServicesLoop(
           DictSet(services, Group(Head(ms), bill_str, "service"),
                   [total |-> Float(Group(Head(ms), bill_str, "total")),
                    parts |-> parts.value]),
           Tail(ms), bill_str)

bm_parse_services(bill_str) ==
    bm_ServicesLoop(<<>>, ReFindIter(bm_SERVICE_REGEX, bill_str), bill_str)

\* the validation that accepts every bill
bm_validate_bill_unchecked(bill) == Validated(<<>>, "", <<>>)

\* BillManager._validate_bill: the bill total is asserted, then the
\* services are gone through as in BillParser._validate_bill
bm_validate_bill(bill) ==
    IF ~IsClose(ServicesTotal(bill.services), Val(bill.total), 1, RelTolDen)
    THEN Validated(<<>>, "AssertionError", <<>>)
    ELSE ValidateServices(bill.services, <<>>)

\* what _parse_bill leaves: the records logged, and parsed_data or the
\* exception raised
bm_Validated(parsed_data, v) ==
    [logged |-> v.logged, raised |-> v.raised,
     value |-> IF v.raised = "" THEN parsed_data ELSE <<>>]

\* parsed_data = {**header, "services": services}, then its validation
bm_Built(header, services) ==
    IF header.raised # ""
    THEN [logged |-> <<>>, raised |-> header.raised, value |-> <<>>]
    ELSE IF services.raised # ""
    THEN [logged |-> <<>>, raised |-> services.raised, value |-> <<>>]
    ELSE bm_Validated([services |-> services.value] @@ header.value,
                      bm_validate_bill([services |-> services.value]
                                       @@ header.value))

\* BillManager._parse_bill on the pages of reader
bm_parse_bill(pages) ==
    bm_Built(parse_header(TextOf(ExtractText(<<>>, Head(pages)))),
             bm_parse_services(TextOf(ExtractPages(<<>>, Tail(pages)))))

\* ---- state machine ----
(***************************************************************************)
(* The bills the calls of parse are given.                                 *)
(***************************************************************************)
RECURSIVE Sp(_)
\* the lexemes of words with single spaces between them
Sp(words) ==
    IF Len(words) <= 1 THEN words
    ELSE <<Head(words), SP>> \o Sp(Tail(words))

\* a fragment of the billing-detail column, in a subset of the body font
Frag(text) ==
    [text |-> text, x |-> 300,
     font_dict |-> [none |-> FALSE, BaseFont |-> <<"ABCDEF", "ArialMT">>]]
\* a fragment of the left margin
Margin(text) ==
    [text |-> text, x |-> 100,
     font_dict |-> [none |-> FALSE, BaseFont |-> <<"ABCDEF", "ArialMT">>]]

DueDateLine == <<"DUE", SP, "DATE", ":", SP, "Dec", SP, "15,", SP, "2024">>
BillingLine(total) == <<"Current", SP, "billing", ":", SP, total>>
\* "Current <name>: <total>", with " CR" when credit
Trailer(name, total, credit) ==
    <<"Current", SP>> \o name \o <<":", SP, total>>
    \o (IF credit THEN <<SP, "CR">> ELSE <<>>)

\* first pages: the header with a total, and one with no due date
HeaderPages ==
    {<<Frag(DueDateLine), Margin(BillingLine("3.00")),
       Frag(BillingLine(total))>> : total \in {"5.00", "7.00"}}
    \cup {<<Frag(Sp(<<"Page", "2">>)), Frag(BillingLine("5.00"))>>}

\* a body page: one service section, a fragment per printed line
Section(name, lines, total, credit) ==
    <<Frag(name)>> \o [k \in 1..Len(lines) |-> Frag(lines[k])]
    \o <<Frag(Trailer(name, total, credit))>>

UsageLine(usage) ==
    Sp(<<"Oct", "01,", "2025", "Nov", "30,", "2025", usage, "1.00", "4.00">>)
    \o <<"*">>

SectionPages ==
    {\* items that sum to the printed total
     Section(<<"Water">>, <<Sp(<<"Base", "Fee", "3.00">>),
                            Sp(<<"Usage", "2.00">>)>>, "5.00", FALSE),
     \* items that do not
     Section(<<"Water">>, <<Sp(<<"Base", "Fee", "3.00">>)>>, "5.00", FALSE),
     \* a charge against a credited total
     Section(<<"Sewer">>, <<Sp(<<"Base", "Fee", "2.00">>)>>, "2.00", TRUE),
     \* a usage period with meter readings; the usage is a valid number or
     \* not
     Section(<<"Sewer">>,
             <<UsageLine("3.00"),
               Sp(<<"Usage", "3.00", "CCF", "@">>) \o <<SP, "$", "1.00", SP>>
               \o Sp(<<"per", "CCF", "3.00">>)>>, "3.00", FALSE),
     Section(<<"Sewer">>,
             <<UsageLine("5,00"), Sp(<<"Usage", "3.00">>)>>, "3.00", FALSE),
     \* an item whose rate is no valid number
     Section(<<"Sewer">>,
             <<Sp(<<"Usage", "3.00", "CCF", "@">>) \o <<SP, "$", "5,00", SP>>
               \o Sp(<<"per", "CCF", "3.00">>)>>, "3.00", FALSE),
     \* a page with items and no service trailer
     <<Frag(Sp(<<"Page", "2">>)), Frag(Sp(<<"Base", "Fee", "3.00">>))>>,
     \* adjustments: a credit that reconciles, and items that do not
     Section(<<"Adjustments">>, <<Sp(<<"Late", "Fee", "2.00", "CR">>)>>,
             "2.00", TRUE),
     Section(<<"Adjustments">>, <<Sp(<<"Late", "Fee", "2.00">>)>>,
             "3.00", FALSE),
     \* the credit marker of the trailer on a line of its own
     Section(<<"Adjustments">>, <<Sp(<<"Late", "Fee", "2.00", "CR">>)>>,
             "2.00", FALSE) \o <<Frag(<<"CR">>)>>,
     \* solid waste: one item wrapped over four lines
     Section(Sp(<<"Solid", "Waste">>),
             <<Sp(<<"Oct", "01,", "2025">>),
               Sp(<<"Nov", "30,", "2025">>) \o <<SP, "2", "-">>
               \o Sp(<<"Garbage", "32", "Gal", "1X">>),
               <<"Weekly">>, <<"7.00">>>>, "7.00", FALSE)}

\* the most body pages of a bill
MaxSections == 2

RECURSIVE SeqsUpTo(_, _)
\* the sequences of at most n elements of set
SeqsUpTo(set, n) ==
    IF n = 0 THEN {<<>>}
    ELSE LET shorter == SeqsUpTo(set, n - 1)
         IN shorter \cup {Append(q, e) : q \in shorter, e \in set}

\* reader.pages of the bills: a first page, then the body pages
Bills ==
    {<<header>> \o body : header \in HeaderPages,
                          body \in SeqsUpTo(SectionPages, MaxSections)}

(***************************************************************************)
(* BillParser.parse as a process: one action per statement.                *)
(***************************************************************************)
VARIABLES
    call,   \* per call of parse: its program counter and its local variables
    log,    \* the records the module's logger was given, in order
    unit,   \* a direct call of one method of the parser: its position, its
            \* argument and what it returned
    lists,  \* the lists header and body that extract_text fills, per scope
            \* that binds these two names
    store,  \* what is kept outside the process: the bill documents of
            \* Firestore, the blobs of the bucket, the rows of the database
    run     \* per ingestion request: its position and its local variables

vars == <<call, log, unit, lists, store, run>>

Calls == {"a", "b"}

\* the BillParser objects parse is called on
Instances == {"p1", "p2"}

\* where a name can be bound: the frame of a call, the attributes of an
\* instance, the globals of the module
Scopes == Calls \cup Instances \cup {"module"}

\* header and body kept as attributes of self
InstanceScope(c) == call[c].self

\* header and body kept as globals of the module
ModuleScope(c) == "module"

\* the scope that binds header and body for the call c: they are local
\* variables of parse
ListScope(c) == c

\* the display with its entries the other way round
ServicesFirstOrder == <<"services", "header">>

\* the order Python evaluates the entries of the dictionary display
\* {**self._parse_header(header_text), "services": self._parse_services(...)}
ParsedDataOrder == <<"header", "services">>

\* the locals of a call of parse(file_path) that has not run yet
NewCall(pages) ==
    [pc |-> "open", self |-> "p1", pages |-> pages, page |-> 1,
     header_text |-> <<>>, body_text |-> <<>>, parsed_data |-> <<>>, entry |-> 1,
     raised |-> "", service |-> <<>>, returned |-> FALSE, result |-> <<>>]
\* a call that is never made
NoCall == [NewCall(<<>>) EXCEPT !.pc = "idle"]

\* no method is called directly
NoUnit == [method |-> "none", pc |-> "idle"]

\* no scope binds header or body yet
NoLists == [scope \in Scopes |-> [header |-> <<>>, body |-> <<>>]]

\* the requests that may be served at once
Runs == {"r1", "r2"}

\* nothing is stored yet
NoStore == [bills |-> <<>>, blobs |-> <<>>, rows |-> <<>>]

\* a request that is never made
NoRun == [kind |-> "none", pc |-> "idle", todo |-> <<>>]
NoRuns == [r \in Runs |-> NoRun]

Init ==
    /\ \E pages \in Bills :
         call = [c \in Calls |-> IF c = "a" THEN NewCall(pages) ELSE NoCall]
    /\ log = <<>>
    /\ unit = NoUnit
    /\ lists = NoLists
    /\ store = NoStore
    /\ run = NoRuns

\* the locals of the call with locals l once the exception exc leaves it
Failed(l, exc, service) ==
    [l EXCEPT !.pc = "raised", !.raised = exc, !.service = service]

\* the locals after an entry of the dictionary display was evaluated to the
\* outcome entries: they go into parsed_data unless evaluating them raised
Entered(l, entries) ==
    IF entries.raised # "" THEN Failed(l, entries.raised, <<>>)
    ELSE [l EXCEPT !.parsed_data = entries.value @@ l.parsed_data,
                   !.entry = l.entry + 1]

\* "services": <the outcome services of _parse_services>
ServicesEntry(services) ==
    IF services.raised # "" THEN services
    ELSE Return([services |-> services.value])

\* the call and the log after _validate_bill went through v
Validation(c, v) ==
    /\ log' = log \o v.logged
    /\ call' = [call EXCEPT
                  ![c] = IF v.raised # "" THEN Failed(call[c], v.raised, v.service)
                         ELSE [call[c] EXCEPT !.pc = "return"]]

\* header: list[dict[str, Any]] = []
NewHeader(c) ==
    /\ call[c].pc = "open"
    /\ lists' = [lists EXCEPT ![ListScope(c)].header = <<>>]
    /\ call' = [call EXCEPT ![c].pc = "header"]
    /\ UNCHANGED <<log, unit, store, run>>

\* reader.pages[0].extract_text(visitor_text=partial(..., header))
VisitHeader(c) ==
    /\ call[c].pc = "header"
    /\ lists' = [lists EXCEPT
                   ![ListScope(c)].header = ExtractText(@, Head(call[c].pages))]
    /\ call' = [call EXCEPT ![c].pc = "header_text"]
    /\ UNCHANGED <<log, unit, store, run>>

\* header_text = "\n".join([part["text"].strip() for part in header])
JoinHeader(c) ==
    /\ call[c].pc = "header_text"
    /\ call' = [call EXCEPT
                  ![c].header_text = TextOf(lists[ListScope(c)].header),
                  ![c].pc = "body"]
    /\ UNCHANGED <<log, unit, lists, store, run>>

\* body: list[dict[str, Any]] = []; for page in reader.pages[1:]:
NewBody(c) ==
    /\ call[c].pc = "body"
    /\ lists' = [lists EXCEPT ![ListScope(c)].body = <<>>]
    /\ call' = [call EXCEPT ![c].pc = "pages", ![c].page = 2]
    /\ UNCHANGED <<log, unit, store, run>>

\* page.extract_text(visitor_text=partial(self._visitor_body, body))
VisitPage(c) ==
    /\ call[c].pc = "pages" /\ call[c].page <= Len(call[c].pages)
    /\ lists' = [lists EXCEPT
                   ![ListScope(c)].body
                     = ExtractText(@, call[c].pages[call[c].page])]
    /\ call' = [call EXCEPT ![c].page = @ + 1]
    /\ UNCHANGED <<log, unit, store, run>>

\* body_text = "\n".join([part["text"].strip() for part in body])
JoinBody(c) ==
    /\ call[c].pc = "pages" /\ call[c].page > Len(call[c].pages)
    /\ call' = [call EXCEPT
                  ![c].body_text = TextOf(lists[ListScope(c)].body),
                  ![c].pc = "build"]
    /\ UNCHANGED <<log, unit, lists, store, run>>

\* the entry of parsed_data that is evaluated next
NextEntry(c) ==
    IF call[c].entry <= Len(ParsedDataOrder)
    THEN ParsedDataOrder[call[c].entry] ELSE "none"

\* **self._parse_header(header_text)
ParseHeader(c) ==
    /\ call[c].pc = "build" /\ NextEntry(c) = "header"
    /\ call' = [call EXCEPT
                  ![c] = Entered(call[c], parse_header(call[c].header_text))]
    /\ UNCHANGED <<log, unit, lists, store, run>>

\* "services": self._parse_services(body_text)
ParseServices(c) ==
    /\ call[c].pc = "build" /\ NextEntry(c) = "services"
    /\ call' = [call EXCEPT
                  ![c] = Entered(call[c],
                                 ServicesEntry(parse_services(call[c].body_text)))]
    /\ UNCHANGED <<log, unit, lists, store, run>>

\* self._validate_bill(parsed_data)
Validate(c) ==
    /\ call[c].pc = "build" /\ NextEntry(c) = "none"
    /\ Validation(c, validate_bill(call[c].parsed_data))
    /\ UNCHANGED <<unit, lists, store, run>>

\* return parsed_data
ReturnBill(c) ==
    /\ call[c].pc = "return"
    /\ call' = [call EXCEPT ![c].pc = "done", ![c].returned = TRUE,
                            ![c].result = call[c].parsed_data]
    /\ UNCHANGED <<log, unit, lists, store, run>>

Next ==
    \E c \in Calls :
        \/ NewHeader(c)
        \/ VisitHeader(c)
        \/ JoinHeader(c)
        \/ NewBody(c)
        \/ VisitPage(c)
        \/ JoinBody(c)
        \/ ParseHeader(c)
        \/ ParseServices(c)
        \/ Validate(c)
        \/ ReturnBill(c)

Spec == Init /\ [][Next]_vars

\* the bills parsed by two calls at once: one that parses and reconciles,
\* one of two body pages whose adjustments are logged, one whose service
\* total fails the assertion, one with no due date, one with no body page
TwoBills ==
    {<<<<Frag(DueDateLine), Margin(BillingLine("3.00")),
         Frag(BillingLine("5.00"))>>,
       Section(<<"Water">>, <<Sp(<<"Base", "Fee", "3.00">>),
                              Sp(<<"Usage", "2.00">>)>>, "5.00", FALSE)>>,
     <<<<Frag(DueDateLine), Margin(BillingLine("3.00")),
         Frag(BillingLine("7.00"))>>,
       Section(<<"Water">>, <<Sp(<<"Base", "Fee", "3.00">>),
                              Sp(<<"Usage", "2.00">>)>>, "5.00", FALSE),
       Section(<<"Adjustments">>, <<Sp(<<"Late", "Fee", "2.00">>)>>,
               "3.00", FALSE)>>,
     <<<<Frag(DueDateLine), Margin(BillingLine("3.00")),
         Frag(BillingLine("5.00"))>>,
       Section(<<"Sewer">>, <<Sp(<<"Base", "Fee", "2.00">>)>>, "2.00", TRUE)>>,
     <<<<Frag(Sp(<<"Page", "2">>)), Frag(BillingLine("5.00"))>>,
       Section(<<"Water">>, <<Sp(<<"Base", "Fee", "3.00">>)>>, "5.00", FALSE)>>,
     <<<<Frag(DueDateLine), Margin(BillingLine("3.00")),
         Frag(BillingLine("7.00"))>>>>}

\* two calls of parse at once, on one instance or on two
TwoInit ==
    /\ \E first \in TwoBills, second \in TwoBills, self \in Instances :
         call = [c \in Calls |->
                   IF c = "a" THEN NewCall(first)
                   ELSE [NewCall(second) EXCEPT !.self = self]]
    /\ log = <<>>
    /\ unit = NoUnit
    /\ lists = NoLists
    /\ store = NoStore
    /\ run = NoRuns

SpecTwo == TwoInit /\ [][Next]_vars

(***************************************************************************)
(* The methods of the parser called directly, one at a time.               *)
(***************************************************************************)
\* the lines the texts given to _normalize_solid_waste_text are made of
NormLines ==
    {Sp(<<"Oct", "01,", "2025", "Nov", "30,", "2025">>) \o <<SP, "2", "-">>
       \o Sp(<<"Garbage", "32", "Gal", "1X">>),
     Sp(<<"Oct", "01,", "2025">>),
     Sp(<<"Nov", "30,", "2025">>) \o <<SP, "2", "-">>
       \o Sp(<<"Garbage", "32", "Gal", "1X">>),
     <<"Weekly">>,
     <<"7.00">>,
     Sp(<<"Base", "Fee", "5.00">>),
     <<>>,
     <<SP>> \o Sp(<<"Late", "Fee">>),
     Sp(<<"Oct", "01,", "2025", "Usage", "5.00">>),
     Sp(<<"Oct", "01,">>),
     Sp(<<"2025", "Usage", "5.00">>)}

\* the most lines of such a text
MaxNormLines == 3

\* the texts of at most n lines, each from lines
Texts(lines, n) ==
    {JoinWith(<<NL>>, ls) : ls \in SeqsUpTo(lines, n) \ {<<>>}}

\* a direct call of method with the argument arg
NewUnit(method, arg) ==
    [method |-> method, pc |-> "called", arg |-> arg, ret |-> <<>>,
     again |-> <<>>, raised |-> ""]

\* the call once the method went through outcome
Left(u, outcome) ==
    IF outcome.raised # ""
    THEN [u EXCEPT !.pc = "raised", !.raised = outcome.raised]
    ELSE [u EXCEPT !.pc = "returned", !.ret = outcome.value]

NormInit ==
    /\ call = [c \in Calls |-> NoCall]
    /\ log = <<>>
    /\ \E text \in Texts(NormLines, MaxNormLines) :
         unit = NewUnit("_normalize_solid_waste_text", text)
    /\ lists = NoLists
    /\ store = NoStore
    /\ run = NoRuns

\* ret = self._normalize_solid_waste_text(arg)
Normalize ==
    /\ unit.method = "_normalize_solid_waste_text" /\ unit.pc = "called"
    /\ unit' = [unit EXCEPT !.pc = "returned",
                            !.ret = normalize_solid_waste_text(unit.arg)]
    /\ UNCHANGED <<call, log, lists, store, run>>

\* again = self._normalize_solid_waste_text(ret)
NormalizeAgain ==
    /\ unit.method = "_normalize_solid_waste_text" /\ unit.pc = "returned"
    /\ unit' = [unit EXCEPT !.pc = "returned again",
                            !.again = normalize_solid_waste_text(unit.ret)]
    /\ UNCHANGED <<call, log, lists, store, run>>

NormNext == Normalize \/ NormalizeAgain

SpecNorm == NormInit /\ [][NormNext]_vars

\* the lines the texts given to _parse_items are made of
ItemLines ==
    {Sp(<<"Base", "Fee", "3.00">>),
     Sp(<<"Late", "Fee", "2.00", "CR">>),
     Sp(<<"Late", "Fee", "2.00">>),
     <<"CR">>,
     Sp(<<"Late", "Fee">>) \o <<SP, "2.00", "CR">>,
     Sp(<<"CR", "Fee", "1.00">>),
     Sp(<<"Oct", "01,", "2025", "Nov", "30,", "2025", "Usage", "3.00", "CCF",
          "@">>) \o <<SP, "$", "1.00", SP>> \o Sp(<<"per", "CCF", "3.00", "CR">>),
     Sp(<<"Usage", "3.00", "CCF", "@">>) \o <<SP, "$", "5,00", SP>>
       \o Sp(<<"per", "CCF", "3.00">>),
     Sp(<<"Fee", "1.00", "2.00", "CR">>),
     Sp(<<"Tax", "5,00">>),
     <<"2", "-">> \o Sp(<<"Garbage", "32", "Gal", "1X", "Weekly", "7.00">>)}

\* the most lines of such a text
MaxItemLines == 2

ItemsInit ==
    /\ call = [c \in Calls |-> NoCall]
    /\ log = <<>>
    /\ \E text \in Texts(ItemLines, MaxItemLines) :
         unit = NewUnit("_parse_items", text)
    /\ lists = NoLists
    /\ store = NoStore
    /\ run = NoRuns

\* ret = self._parse_items(arg)
ParseItems ==
    /\ unit.method = "_parse_items" /\ unit.pc = "called"
    /\ unit' = Left(unit, parse_items(unit.arg))
    /\ UNCHANGED <<call, log, lists, store, run>>

ItemsNext == ParseItems

SpecItems == ItemsInit /\ [][ItemsNext]_vars

\* the lines the texts given to _parse_service_bill are made of
UsageLines ==
    {Sp(<<"Oct", "01,", "2025", "Nov", "30,", "2025", "3.00", "1.00", "4.00">>)
       \o <<"*">>,
     Sp(<<"Nov", "30,", "2025", "Dec", "15,", "2025", "5.00">>),
     Sp(<<"Oct", "01,", "2025", "Nov", "30,", "2025", "5,00">>),
     Sp(<<"Usage", "3.00">>),
     Sp(<<"Meter", "Number">>) \o <<":", SP>> \o Sp(<<"M1", "Service", "Category">>)
       \o <<":", SP, "WATER">>,
     Sp(<<"Base", "Fee", "2.00", "CR">>),
     Sp(<<"Meter", "Number">>) \o <<":", SP>> \o Sp(<<"M1", "Service", "Category">>)
       \o <<":">>,
     Sp(<<"Oct", "01,", "2025", "Nov", "30,", "2025", "Usage", "3.00", "CCF",
          "@">>) \o <<SP, "$", "1.00", SP>> \o Sp(<<"per", "CCF", "3.00">>),
     Sp(<<"Late", "Fee", "Dec", "15,", "2025", "2.00">>),
     <<"2", "-">> \o Sp(<<"Garbage", "32", "Gal", "7.00">>)}

\* the most lines of such a text
MaxUsageLines == 3

UsageInit ==
    /\ call = [c \in Calls |-> NoCall]
    /\ log = <<>>
    /\ \E text \in Texts(UsageLines, MaxUsageLines) :
         unit = NewUnit("_parse_service_bill", text)
    /\ lists = NoLists
    /\ store = NoStore
    /\ run = NoRuns

\* ret = self._parse_service_bill(arg)
ParseServiceBill ==
    /\ unit.method = "_parse_service_bill" /\ unit.pc = "called"
    /\ unit' = Left(unit, parse_service_bill(unit.arg))
    /\ UNCHANGED <<call, log, lists, store, run>>

UsageNext == ParseServiceBill

SpecUsage == UsageInit /\ [][UsageNext]_vars

\* the descriptions of the items given to _parse_trash
TrashDescriptions ==
    {<<"2", "-">> \o Sp(<<"Garbage", "32", "Gal", "1X", "Weekly">>),
     <<"2", "-">> \o Sp(<<"Garbage", "32", "Gal">>),
     <<"32", "-", "Garbage", "/">> \o Sp(<<"Waste", "2", "Gal">>),
     <<"2", "-">> \o Sp(<<"Garbage", "32", "Gal", "per", "2", "Gal">>),
     <<"2", "-", SP, "Garbage", SP, SP, "32", SP, "Gal">>,
     <<"2", "-">> \o Sp(<<"Garbage", "1X", "Weekly">>),
     <<"2", "-", "$", SP, "32", SP, "Gal">>,
     Sp(<<"Garbage", "32", "Gal">>),
     Sp(<<"Fee", "2">>) \o <<"-">> \o Sp(<<"Garbage", "32", "Gal">>),
     Sp(<<"Base", "Fee">>)}

\* the optional entries of the items _parse_items builds: start and end
\* come together, and so do usage and rate
OptionalEntries ==
    {dates @@ date @@ usage :
       dates \in {<<>>, [start |-> Sp(<<"Oct", "01,", "2025">>),
                         end |-> Sp(<<"Nov", "30,", "2025">>)]},
       date \in {<<>>, [date |-> Sp(<<"Dec", "15,", "2025">>)]},
       usage \in {<<>>, [usage |-> Float(<<"3.00">>),
                         rate |-> Float(<<"1.00">>)]}}

\* the items given to _parse_trash
TrashItems ==
    {[description |-> description, cost |-> cost] @@ optional :
       description \in TrashDescriptions,
       cost \in {Float(<<"7.00">>), Negate(Float(<<"2.00">>))},
       optional \in OptionalEntries}

TrashInit ==
    /\ call = [c \in Calls |-> NoCall]
    /\ log = <<>>
    /\ \E item \in TrashItems : unit = NewUnit("_parse_trash", item)
    /\ lists = NoLists
    /\ store = NoStore
    /\ run = NoRuns

\* ret = self._parse_trash(arg)
ParseTrash ==
    /\ unit.method = "_parse_trash" /\ unit.pc = "called"
    /\ unit' = Left(unit, Return(parse_trash(unit.arg)))
    /\ UNCHANGED <<call, log, lists, store, run>>

TrashNext == ParseTrash

SpecTrash == TrashInit /\ [][TrashNext]_vars

\* the fragments of the pages given to the visitor: two texts, one with
\* the artifact token, left of, at and right of the margin, with no font,
\* a body font with or without subset prefix, and other fonts
FilterFragments ==
    {[text |-> text, x |-> x, font_dict |-> font_dict] :
       text \in {<<"Water">>, <<"Base", "O00934", SP, "Fee", SP>>},
       x \in {100, LeftMargin, LeftMargin + 1},
       font_dict \in {[none |-> TRUE]}
                     \cup {[none |-> FALSE, BaseFont |-> font] :
                             font \in {<<"ArialMT">>,
                                       <<"ABCDEF", "Arial-BoldMT">>,
                                       <<"ABCDEF", "Times">>,
                                       <<"ArialMT", "Times">>}}}

\* the most fragments of such a page
MaxFragments == 2

\* the list the visitor appends to: new, or holding a part of an earlier
\* page
EarlierParts ==
    {<<>>, <<[text |-> <<"Sewer">>, font |-> "ArialMT", x |-> 300]>>}

FilterInit ==
    /\ call = [c \in Calls |-> NoCall]
    /\ log = <<>>
    /\ \E parts \in EarlierParts,
          page \in SeqsUpTo(FilterFragments, MaxFragments) :
         unit = NewUnit("extract_text", [parts |-> parts, page |-> page])
    /\ lists = NoLists
    /\ store = NoStore
    /\ run = NoRuns

\* page.extract_text(visitor_text=partial(self._visitor_body, parts)); ret
\* is parts afterwards
VisitFragments ==
    /\ unit.method = "extract_text" /\ unit.pc = "called"
    /\ unit' = Left(unit, Return(ExtractText(unit.arg.parts, unit.arg.page)))
    /\ UNCHANGED <<call, log, lists, store, run>>

FilterNext == VisitFragments

SpecFilter == FilterInit /\ [][FilterNext]_vars

(***************************************************************************)
(* One bill given to BillParser.parse and to BillManager._parse_bill.      *)
(***************************************************************************)
\* the body pages of these bills: sections whose items reconcile or not,
\* with and without usage period, adjustments that do not reconcile, and
\* sections with a credit marker or of solid waste
BothPages ==
    {Section(<<"Water">>, <<Sp(<<"Base", "Fee", "3.00">>),
                            Sp(<<"Usage", "2.00">>)>>, "5.00", FALSE),
     Section(<<"Water">>, <<Sp(<<"Base", "Fee", "3.00">>)>>, "5.00", FALSE),
     Section(<<"Sewer">>, <<Sp(<<"Base", "Fee", "2.00">>)>>, "2.00", FALSE),
     Section(<<"Sewer">>,
             <<UsageLine("3.00"),
               Sp(<<"Usage", "3.00", "CCF", "@">>) \o <<SP, "$", "1.00", SP>>
               \o Sp(<<"per", "CCF", "3.00">>)>>, "3.00", FALSE),
     Section(<<"Adjustments">>, <<Sp(<<"Late", "Fee", "3.00">>)>>,
             "2.00", FALSE),
     Section(<<"Sewer">>, <<Sp(<<"Base", "Fee", "2.00">>)>>, "2.00", TRUE),
     Section(<<"Adjustments">>, <<Sp(<<"Late", "Fee", "2.00", "CR">>)>>,
             "2.00", TRUE),
     Section(Sp(<<"Solid", "Waste">>),
             <<Sp(<<"Oct", "01,", "2025">>),
               Sp(<<"Nov", "30,", "2025">>) \o <<SP, "2", "-">>
               \o Sp(<<"Garbage", "32", "Gal", "1X">>),
               <<"Weekly">>, <<"7.00">>>>, "7.00", FALSE)}

BothBills ==
    {<<header>> \o body : header \in HeaderPages,
                          body \in SeqsUpTo(BothPages, MaxSections)}

BothInit ==
    /\ \E pages \in BothBills :
         /\ call = [c \in Calls |-> IF c = "a" THEN NewCall(pages) ELSE NoCall]
         /\ unit = NewUnit("_parse_bill", pages)
    /\ log = <<>>
    /\ lists = NoLists
    /\ store = NoStore
    /\ run = NoRuns

\* the direct call and the log once _parse_bill went through v
ParsedBill(v) ==
    /\ unit' = Left(unit, v)
    /\ log' = log \o v.logged

\* ret = BillManager(db)._parse_bill(arg)
ParseBill ==
    /\ unit.method = "_parse_bill" /\ unit.pc = "called"
    /\ ParsedBill(bm_parse_bill(unit.arg))
    /\ UNCHANGED <<call, lists, store, run>>

BothNext == Next \/ ParseBill

SpecBoth == BothInit /\ [][BothNext]_vars

(***************************************************************************)
(* Properties of parse                                                     *)
(***************************************************************************)
\* the calls that got past _validate_bill without an exception
Accepted == {c \in Calls : call[c].pc \in {"return", "done"}}
\* the calls that an exception left
Rejected == {c \in Calls : call[c].pc = "raised"}
\* the calls that returned
Returned == {c \in Calls : call[c].pc = "done"}

\* a service whose name has "adjustment" in it, whatever the case
NamedAdjustment(service_data) ==
    \E k \in 1..Len(service_data.name) :
        service_data.name[k] \in {"Adjustments", "ADJUSTMENT"}

\* the services of a dictionary whose items do not sum to their total
Unreconciled(services) ==
    {k \in 1..Len(services) :
        ItemsTotal(services[k]) # Val(services[k].total)}

\* C1: a bill that parse returns has, for every service that is not an
\* adjustment service, items whose costs sum to the service's total; a call
\* that an exception left returned nothing.
C1_NonAdjustmentReconciles ==
    /\ \A c \in Accepted :
         \A k \in Unreconciled(call[c].parsed_data.services) :
             NamedAdjustment(call[c].parsed_data.services[k])
    /\ \A c \in Returned : call[c].result = call[c].parsed_data
    /\ \A c \in Rejected : ~call[c].returned /\ call[c].result = <<>>

\* a returned bill with a reconciling service that has items
C1_Witness ==
    \E c \in Returned :
        \E k \in 1..Len(call[c].result.services) :
            /\ ~NamedAdjustment(call[c].result.services[k])
            /\ ItemsOf(call[c].result.services[k]) # <<>>

\* C2: an adjustment service whose items do not sum to its total never
\* makes parse fail: the assertion only ever names a service that is not an
\* adjustment service, and a bill whose other services reconcile is returned
\* with the services as _parse_services built them.
C2_AdjustmentNeverFails ==
    /\ \A c \in Rejected :
         call[c].raised = "AssertionError" =>
            \E k \in Unreconciled(call[c].parsed_data.services) :
                /\ call[c].parsed_data.services[k].name = call[c].service
                /\ ~NamedAdjustment(call[c].parsed_data.services[k])
    /\ \A c \in Returned :
         call[c].result.services = parse_services(call[c].body_text).value

\* a returned bill with an adjustment service that does not reconcile and
\* kept its items
C2_Witness ==
    \E c \in Returned :
        \E k \in Unreconciled(call[c].result.services) :
            /\ NamedAdjustment(call[c].result.services[k])
            /\ ItemsOf(call[c].result.services[k]) # <<>>

\* the record expected in the log for an adjustment service
ExpectedWarning(service_data) ==
    [kind |-> "adjustment", service |-> service_data.name,
     items_found |-> [k \in 1..Len(ItemsOf(service_data)) |->
                        [description |-> ItemsOf(service_data)[k].description,
                         cost |-> ItemsOf(service_data)[k].cost]],
     found_total |-> ItemsTotal(service_data),
     expected_total |-> service_data.total]

\* the adjustment services of a dictionary that do not reconcile, in order
SoftMismatches(services) ==
    SelectSeq(services,
              LAMBDA sd : NamedAdjustment(sd) /\ ItemsTotal(sd) # Val(sd.total))

\* the call c is the only one that ran
OnlyCall(c) == \A d \in Calls \ {c} : call[d].pc = "idle"

\* C3 (as amended): for a bill parse returns, each adjustment service that
\* does not reconcile is logged once, in order, with the service, the items
\* found, their total and the expected total; the returned dictionary has
\* the keys due_date, total and services only, and no adjustment record is
\* logged for a bill without such a service.
C3_WarningsLoggedOnly ==
    \A c \in Returned :
        /\ DOMAIN call[c].result = {"due_date", "total", "services"}
        /\ OnlyCall(c) =>
             SelectSeq(log, LAMBDA r : r.kind = "adjustment")
               = [k \in 1..Len(SoftMismatches(call[c].result.services)) |->
                    ExpectedWarning(SoftMismatches(call[c].result.services)[k])]

\* a returned bill with an adjustment record in the log
C3_Witness ==
    \E c \in Returned :
        /\ SoftMismatches(call[c].result.services) # <<>>
        /\ \E k \in 1..Len(log) : log[k].kind = "adjustment"

\* C3 as stated: the result of parse carries one warning per adjustment
\* service that does not reconcile.
C3_WarningsAttached ==
    \A c \in Returned :
        /\ "warnings" \in DOMAIN call[c].result
        /\ Len(call[c].result.warnings)
             = Len(SoftMismatches(call[c].result.services))

\* C4: a difference between the sum of the services' totals and the header
\* total, however large, never makes parse fail: past _validate_bill a call
\* has failed exactly when a service that is not an adjustment service does
\* not reconcile, and the difference is only logged.
C4_BillTotalOnlyLogged ==
    \A c \in Calls :
        (c \in Accepted \/ (c \in Rejected /\ call[c].raised = "AssertionError"))
        => /\ c \in Rejected <=>
                \E k \in Unreconciled(call[c].parsed_data.services) :
                    ~NamedAdjustment(call[c].parsed_data.services[k])
           /\ (OnlyCall(c) /\ ServicesTotal(call[c].parsed_data.services) * 2
                                < Val(call[c].parsed_data.total))
                => log # <<>> /\ log[1].kind = "bill_total"

\* a returned bill whose services sum to less than half the header total
C4_Witness ==
    \E c \in Returned :
        /\ ServicesTotal(call[c].result.services) * 2 < Val(call[c].result.total)
        /\ call[c].result.services # <<>>
        /\ log # <<>> /\ log[1].kind = "bill_total"

\* the header text of the call has a due date and a current billing total
HeaderFound(c) == ReSearch(HEADER_REGEX, call[c].header_text).ok

\* C5: when the header pattern does not match, parse fails with no bill, and
\* the header is looked at before any service section is parsed: no call
\* holds parsed services without a parsed header.
C5_HeaderFirst ==
    \A c \in Calls :
        /\ "services" \in DOMAIN call[c].parsed_data
             => "due_date" \in DOMAIN call[c].parsed_data
        /\ (~HeaderFound(c) /\ call[c].pc \in {"return", "done", "raised"})
             => /\ call[c].pc = "raised" /\ call[c].raised = "ValueError"
                /\ call[c].parsed_data = <<>> /\ call[c].result = <<>>
        /\ (~HeaderFound(c) /\ call[c].pc = "build") => call[c].entry = 1

\* a call that failed on the header of a bill with a service section
C5_Witness ==
    \E c \in Rejected :
        /\ ~HeaderFound(c)
        /\ ReSearch(SERVICE_REGEX, call[c].body_text).ok

\* whether the atoms of s from position i on are whitespace, if any, and
\* then the credit marker
CreditFollows(s, i) ==
    \E j \in i..Len(s) :
        s[j] = "CR" /\ \A k \in i..(j - 1) : s[k] \in {SP, NL}

\* the amount, in cents, printed as the group name of the match m in s
Printed(m, s, name) == CentsOf(s[m.caps[name][1]])

\* the amount stored for the amount printed as the group name of m in s
Signed(m, s, name) ==
    [neg |-> CreditFollows(s, m.caps[name][2]),
     cents |-> Printed(m, s, name)]

\* the matches of SERVICE_REGEX in s that no later match of the same
\* service overwrites
LastMatches(ms, s) ==
    SelectSeq(ms, LAMBDA m :
        \A k \in 1..Len(ms) :
            Group(ms[k], s, "service") = Group(m, s, "service")
                => ms[k].start <= m.start)

\* the totals of the services as the section trailers of s print them
PrintedTotals(ms, s) ==
    {[name |-> Group(ms[k], s, "service"), total |-> Signed(ms[k], s, "total")] :
        k \in 1..Len(ms)}

\* the totals of the services of a dictionary
StoredTotals(services) ==
    {[name |-> services[k].name, total |-> services[k].total] :
        k \in 1..Len(services)}

\* C6: the total of a service whose trailer has the credit marker after the
\* amount is stored negative with the printed magnitude, and the total of a
\* service without the marker is stored as the printed amount, which is not
\* negative.
C6_ServiceTotalSign ==
    \A c \in Calls :
        "services" \in DOMAIN call[c].parsed_data =>
            StoredTotals(call[c].parsed_data.services)
              = PrintedTotals(
                  LastMatches(ReFindIter(SERVICE_REGEX, call[c].body_text),
                              call[c].body_text),
                  call[c].body_text)

\* a returned bill with a credited total and a total that is not
C6_Witness ==
    \E c \in Returned :
        /\ \E k \in 1..Len(call[c].result.services) :
             /\ call[c].result.services[k].total.neg
             /\ call[c].result.services[k].total.cents > 0
        /\ \E k \in 1..Len(call[c].result.services) :
             /\ ~call[c].result.services[k].total.neg
             /\ call[c].result.services[k].total.cents > 0

(***************************************************************************)
(* Properties of _normalize_solid_waste_text                               *)
(***************************************************************************)
\* C8: normalizing what the normalizer returned returns it unchanged.
C8_Idempotent ==
    unit.pc = "returned again" => unit.again = unit.ret

\* the calls of the normalizer that returned
Normalized ==
    /\ unit.method = "_normalize_solid_waste_text"
    /\ unit.pc \in {"returned", "returned again"}

\* a date token at position i of line: a capitalised word of three letters,
\* a day with its comma and a year
DateAt(line, i) ==
    /\ i + 4 <= Len(line)
    /\ line[i] \in Cap3Lex /\ line[i + 1] = SP
    /\ line[i + 2] \in DayLex /\ line[i + 3] = SP /\ line[i + 4] \in YearLex

\* line starts with two date tokens with at most blanks between them
TwoDatesStart(line) ==
    /\ DateAt(line, 1)
    /\ \E j \in 6..Len(line) :
         DateAt(line, j) /\ \A k \in 6..(j - 1) : line[k] = SP

\* no line of text, blanks at its ends aside, starts with two date tokens
NoTwoDateLine(text) ==
    \A k \in 1..Len(SplitNl(text)) : ~TwoDatesStart(Strip(SplitNl(text)[k]))

\* line, coming after prev, is kept a line of its own
KeptApart(prev, line) ==
    /\ Last(prev) \in CostLex
    /\ ~(Len(line) = 1 /\ line[1] \in CostLex)
    /\ ~(Len(line) = 1 /\ line[1] \in {"Weekly", "Week", "Other", "Every",
                                       "weekly"})
    /\ ~(DateAt(line, 1) /\ DateAt(prev, 1))

\* text is empty, or its lines are not blank, have no blank at either end,
\* and each after the first is kept apart from the one before
LinesStand(text) ==
    \/ text = <<>>
    \/ /\ \A k \in 1..Len(SplitNl(text)) :
            /\ SplitNl(text)[k] # <<>>
            /\ Head(SplitNl(text)[k]) # SP
            /\ Last(SplitNl(text)[k]) # SP
       /\ \A k \in 2..Len(SplitNl(text)) :
            KeptApart(SplitNl(text)[k - 1], SplitNl(text)[k])

\* C9 (as amended): for a text none of whose lines starts with two date
\* tokens, the normalizer returns the text unchanged exactly when the text is
\* empty or every line is non-blank, has no blank at either end and, after
\* the first, follows a line that ends in a cost and is itself neither a bare
\* cost, nor a bare frequency word, nor a line starting with a date after a
\* line starting with a date; else lines are dropped, trimmed or joined.
C9_UnchangedWhenLinesStand ==
    (Normalized /\ NoTwoDateLine(unit.arg))
        => (unit.ret = unit.arg <=> LinesStand(unit.arg))

\* a text of several lines, none starting with two dates, returned unchanged
C9_Witness ==
    /\ Normalized /\ NoTwoDateLine(unit.arg)
    /\ Len(SplitNl(unit.arg)) > 1
    /\ unit.ret = unit.arg

\* C9 as stated: a text none of whose lines starts with two date tokens is
\* returned unchanged.
C9_Unchanged ==
    (Normalized /\ NoTwoDateLine(unit.arg)) => unit.ret = unit.arg

(***************************************************************************)
(* Properties of _parse_items and _parse_service_bill                      *)
(***************************************************************************)
\* the direct calls of method that returned
ReturnedFrom(method) == unit.method = method /\ unit.pc = "returned"

\* C7: the cost of every item _parse_items returns is negative exactly when
\* the printed cost is followed by the credit marker, blanks between them
\* aside, and has the printed magnitude; without the marker it is the
\* printed amount, which is not negative.
C7_ItemCostSign ==
    ReturnedFrom("_parse_items") =>
        /\ Len(unit.ret) = Len(ReFindIter(ITEM_REGEX, unit.arg))
        /\ \A k \in 1..Len(unit.ret) :
             unit.ret[k].cost
               = Signed(ReFindIter(ITEM_REGEX, unit.arg)[k], unit.arg, "cost")

\* items returned with a credited cost among them and a cost that is not
C7_Witness ==
    /\ ReturnedFrom("_parse_items")
    /\ \E k \in 1..Len(unit.ret) :
         unit.ret[k].cost.neg /\ unit.ret[k].cost.cents > 0
    /\ \E k \in 1..Len(unit.ret) :
         ~unit.ret[k].cost.neg /\ unit.ret[k].cost.cents > 0

\* the usage-period markers of a text, left to right
Markers(text) == ReFindIter(USAGE_REGEX, text)

\* the text from the end of the marker i of ms to the next marker, or to the
\* end of text
TextAfter(ms, i, text) ==
    SubSeqOf(text, ms[i].end,
             IF i < Len(ms) THEN ms[i + 1].start - 1 ELSE Len(text))

\* the part the marker m of text stands for, its items aside
PartOf(m, text) ==
    [start_date |-> Group(m, text, "start_date"),
     end_date |-> Group(m, text, "end_date"),
     usage |-> [neg |-> FALSE, cents |-> Printed(m, text, "usage")]]
    @@ KeyIf(HasGroup(m, "start_meter"), "start_meter",
             [neg |-> FALSE, cents |-> Printed(m, text, "start_meter")])
    @@ KeyIf(HasGroup(m, "end_meter"), "end_meter",
             [neg |-> FALSE, cents |-> Printed(m, text, "end_meter")])

\* the keys of a part that come from its marker
MarkerKeys == {"start_date", "end_date", "usage", "start_meter", "end_meter"}

\* the part restricted to the keys that come from its marker
MarkerPart(part) ==
    [key \in DOMAIN part \cap MarkerKeys |-> part[key]]

\* C10: a text with N >= 1 usage-period markers, when _parse_service_bill
\* returns, gives N parts in the order of the markers; the i-th part has the
\* dates and the usage of the i-th marker, its meter readings when the
\* marker has them, and the items of the text between the i-th marker and
\* the next one, or the end of the text.
C10_OnePartPerMarker ==
    (ReturnedFrom("_parse_service_bill") /\ Len(Markers(unit.arg)) >= 1) =>
        /\ Len(unit.ret) = Len(Markers(unit.arg))
        /\ \A i \in 1..Len(unit.ret) :
             /\ MarkerPart(unit.ret[i]) = PartOf(Markers(unit.arg)[i], unit.arg)
             /\ unit.ret[i].items
                  = parse_items(TextAfter(Markers(unit.arg), i, unit.arg)).value

\* parts returned for a text of two markers, with items after the first
C10_Witness ==
    /\ ReturnedFrom("_parse_service_bill")
    /\ Len(Markers(unit.arg)) = 2
    /\ unit.ret[1].items # <<>>
    /\ "start_meter" \in DOMAIN unit.ret[1] \/ "start_meter" \in DOMAIN unit.ret[2]

\* whether text holds "Meter Number: <id> Service Category:", the id made
\* of word lexemes and dashes
MeterLineIn(text) ==
    \E i \in 1..Len(text) : \E j \in (i + 6)..Len(text) :
        /\ OccursAt(<<"Meter", SP, "Number", ":", SP>>, text, i)
        /\ \A k \in (i + 5)..(j - 1) : text[k] \in WLex \cup {"-"}
        /\ OccursAt(<<SP, "Service", SP, "Category", ":">>, text, j)

\* the keys of a part that tell the meter
MeterKeys == {"meter_number", "service_category"}

\* C11 (as stated): a text with no usage-period marker, when
\* _parse_service_bill returns, gives exactly one part; its items are the
\* items of the whole text and it has no other field.
C11_SinglePartItemsOnly ==
    (ReturnedFrom("_parse_service_bill") /\ Markers(unit.arg) = <<>>) =>
        /\ Len(unit.ret) = 1
        /\ unit.ret[1].items = parse_items(unit.arg).value
        /\ DOMAIN unit.ret[1] = {"items"}

\* C11 (amended): a text with no usage-period marker, when
\* _parse_service_bill returns, gives exactly one part; its items are the
\* items of the whole text, it has none of the dates, the usage and the
\* meter readings of a marker, and it has the meter number and the service
\* category exactly when the text holds a "Meter Number: ... Service
\* Category:" line.
C11_SinglePartNoMarkerFields ==
    (ReturnedFrom("_parse_service_bill") /\ Markers(unit.arg) = <<>>) =>
        /\ Len(unit.ret) = 1
        /\ unit.ret[1].items = parse_items(unit.arg).value
        /\ DOMAIN unit.ret[1] \cap MarkerKeys = {}
        /\ DOMAIN unit.ret[1] \ {"items"}
             = IF MeterLineIn(unit.arg) THEN MeterKeys ELSE {}

\* the one part returned for a text with no marker, with an item and with
\* the meter number of its "Meter Number:" line
C11_Witness ==
    /\ ReturnedFrom("_parse_service_bill")
    /\ Markers(unit.arg) = <<>>
    /\ Len(unit.ret) = 1
    /\ unit.ret[1].items # <<>>
    /\ "meter_number" \in DOMAIN unit.ret[1]

(***************************************************************************)
(* Properties of _parse_services                                           *)
(***************************************************************************)
\* whether "Current <name>: <amount>" stands at i in text, its colon at j,
\* the name made of letters and blanks and occurring before i
TrailerAt(text, i, j) ==
    /\ OccursAt(<<"Current", SP>>, text, i)
    /\ j > i + 2 /\ j + 2 <= Len(text)
    /\ \A k \in (i + 2)..(j - 1) : text[k] \in AlphaLex \cup {SP}
    /\ text[j] = ":" /\ text[j + 1] = SP /\ text[j + 2] \in CostLex
    /\ \E p \in 1..(i - 1) : OccursAt(SubSeqOf(text, i + 2, j - 1), text, p)

RECURSIVE TrailerNamesFrom(_, _)
\* the names of the service trailers of text from i on, in document order
TrailerNamesFrom(text, i) ==
    IF i > Len(text) THEN <<>>
    ELSE (IF \E j \in i..Len(text) : TrailerAt(text, i, j)
          THEN <<SubSeqOf(text, i + 2,
                          (CHOOSE j \in i..Len(text) : TrailerAt(text, i, j)) - 1)>>
          ELSE <<>>)
         \o TrailerNamesFrom(text, i + 1)

\* C12: once _parse_services returned, its output has one entry for every
\* service trailer of the body text, in document order: the names of the
\* entries are the names of the trailers, none missing.
C12_EntryPerTrailer ==
    \A c \in Calls :
        "services" \in DOMAIN call[c].parsed_data =>
            [k \in 1..Len(call[c].parsed_data.services) |->
               call[c].parsed_data.services[k].name]
              = TrailerNamesFrom(call[c].body_text, 1)

(***************************************************************************)
(* Properties of _parse_trash                                              *)
(***************************************************************************)
\* whether the description d reads "<count>-<inner> <size> Gal", the blank
\* before the size at j
SizeAt(d, j) ==
    /\ Len(d) >= j + 3 /\ j >= 4
    /\ d[1] \in DigitLex /\ d[2] = "-"
    /\ \A k \in 3..(j - 1) : d[k] \in WLex \cup {SP, "/"}
    /\ d[j] = SP /\ d[j + 1] \in DigitLex /\ d[j + 2] = SP /\ d[j + 3] = "Gal"

\* the blanks before a size in d
SizesOf(d) == {j \in 1..Len(d) : SizeAt(d, j)}

\* the last of them
LastSize(d) == CHOOSE j \in SizesOf(d) : \A other \in SizesOf(d) : other <= j

\* C13: _parse_trash changes an item only when its description reads
\* "<count>-<description> <size> Gal": then the description becomes the
\* trimmed inner description, size and count are attached as numbers, and
\* every other entry (cost, start, end, date, usage, rate) is as it was;
\* otherwise the item is returned as it was, with no size and no count.
C13_TrashOnlyOnMatch ==
    ReturnedFrom("_parse_trash") =>
        IF SizesOf(unit.arg.description) = {}
        THEN unit.ret = unit.arg
        ELSE /\ DOMAIN unit.ret = DOMAIN unit.arg \cup {"size", "count"}
             /\ \A key \in DOMAIN unit.arg \ {"description"} :
                  unit.ret[key] = unit.arg[key]
             /\ unit.ret.description
                  = Strip(SubSeqOf(unit.arg.description, 3,
                                   LastSize(unit.arg.description) - 1))
             /\ unit.ret.count = IntOf(<<unit.arg.description[1]>>)
             /\ unit.ret.size
                  = IntOf(<<unit.arg.description[
                              LastSize(unit.arg.description) + 1]>>)

\* a trash item returned with size and count, a trimmed description and
\* the usage it came with
C13_Witness ==
    /\ ReturnedFrom("_parse_trash")
    /\ "size" \in DOMAIN unit.ret /\ "count" \in DOMAIN unit.ret
    /\ "usage" \in DOMAIN unit.ret
    /\ unit.arg.description[3] = SP
    /\ unit.ret.description = <<"Garbage">>

(***************************************************************************)
(* Properties of calls of parse that overlap                               *)
(***************************************************************************)
\* the calls that are over
Finished == {c \in Calls : call[c].pc \in {"done", "raised"}}

\* what a call that is over gave its caller: a bill, or an exception
OutcomeOf(c) ==
    [returned |-> call[c].returned, result |-> call[c].result,
     raised |-> call[c].raised, service |-> call[c].service]

AloneFailed(exc, service) ==
    [returned |-> FALSE, result |-> <<>>, raised |-> exc, service |-> service]

\* what a call running alone gives once _validate_bill went through v
AloneValidated(parsed_data, v) ==
    IF v.raised # "" THEN AloneFailed(v.raised, v.service)
    ELSE [returned |-> TRUE, result |-> parsed_data, raised |-> "",
          service |-> <<>>]

\* what a call running alone gives for the outcomes of _parse_header and
\* _parse_services
AloneBuilt(header, services) ==
    IF header.raised # "" THEN AloneFailed(header.raised, <<>>)
    ELSE IF services.raised # "" THEN AloneFailed(services.raised, <<>>)
    ELSE AloneValidated([services |-> services.value] @@ header.value,
                        validate_bill([services |-> services.value]
                                      @@ header.value))

\* the header text and the body text a call running alone makes of pages
AloneHeaderText(pages) == TextOf(ExtractText(<<>>, Head(pages)))
AloneBodyText(pages) == TextOf(ExtractPages(<<>>, Tail(pages)))

\* what parse gives for pages when no other call runs
ParseAlone(pages) ==
    AloneBuilt(parse_header(AloneHeaderText(pages)),
               parse_services(AloneBodyText(pages)))

\* C15: whatever the interleaving of the steps of two calls of parse, each
\* call works on the texts of its own pages and ends as it would alone:
\* the header text and the body text it joined are those of its pages, and
\* the bill it returns or the exception it raises is that of its pages.
C15_AsIfAlone ==
    \A c \in Calls :
        /\ call[c].pc \in {"body", "pages", "build", "return", "done", "raised"}
             => call[c].header_text = AloneHeaderText(call[c].pages)
        /\ call[c].pc \in {"build", "return", "done", "raised"}
             => call[c].body_text = AloneBodyText(call[c].pages)
        /\ c \in Finished => OutcomeOf(c) = ParseAlone(call[c].pages)

\* two calls on different bills that are over, one with the bill of its two
\* services, one with the AssertionError of its service
C15_Witness ==
    /\ Finished = Calls
    /\ call["a"].pages # call["b"].pages
    /\ call["a"].returned /\ Len(call["a"].result.services) = 2
    /\ call["b"].raised = "AssertionError"
    /\ lists["a"].body # lists["b"].body

(***************************************************************************)
(* Properties of parse on bodies without a service section                 *)
(***************************************************************************)
\* the call is past _parse_services, which was given a body text with no
\* service trailer
SplitNoTrailer(c) ==
    /\ HeaderFound(c)
    /\ call[c].pc \in {"return", "done", "raised"}
         \/ (call[c].pc = "build" /\ call[c].entry > Len(ParsedDataOrder))
    /\ TrailerNamesFrom(call[c].body_text, 1) = <<>>

\* C16: a body with no service trailer does not fail in _parse_services,
\* which returns an empty services map; _validate_bill then logs the bill
\* total mismatch (services summing to zero against the non-zero header
\* total) and raises nothing.
C16_EmptyBillLogged ==
    \A c \in Calls :
        SplitNoTrailer(c) =>
            /\ call[c].parsed_data.services = <<>>
            /\ call[c].pc # "raised"
            /\ (call[c].pc \in {"return", "done"} /\ OnlyCall(c)
                  /\ Val(call[c].parsed_data.total) # 0)
                 => log = <<BillTotalWarning(0, call[c].parsed_data)>>

\* a bill returned with no service, from a body page that has text but no
\* trailer, the mismatch of its totals logged
C16_Witness ==
    \E c \in Returned :
        /\ SplitNoTrailer(c)
        /\ call[c].body_text # <<>>
        /\ call[c].result.services = <<>>
        /\ Len(log) = 1 /\ log[1].kind = "bill_total"

(***************************************************************************)
(* Properties of the optional fields                                       *)
(***************************************************************************)
\* the item text of the part i of text, whose markers are ms
ItemText(ms, i, text) == IF ms = <<>> THEN text ELSE TextAfter(ms, i, text)

\* the optional entries of an item that come from a group of ITEM_REGEX
ItemGroupKeys == {"start", "end", "date", "usage", "rate"}

\* whether item has its optional entries exactly for the groups that took
\* part in the match m of ITEM_REGEX in text, each with a value, and size
\* and count exactly when the description matched reads as a trash item
ItemKeysMatched(item, m, text) ==
    /\ \A key \in ItemGroupKeys :
         /\ key \in DOMAIN item <=> HasGroup(m, key)
         /\ key \in DOMAIN item => item[key] # <<>>
    /\ \A key \in {"size", "count"} :
         key \in DOMAIN item
           <=> SizesOf(Strip(ReplaceNl(Group(m, text, "description")))) # {}

\* the same for the items of a part, ms being the matches of ITEM_REGEX in
\* the item text of the part
ItemsKeysMatched(items, ms, text) ==
    /\ Len(items) = Len(ms)
    /\ \A k \in 1..Len(items) : ItemKeysMatched(items[k], ms[k], text)

\* whether the part i has its meter readings exactly when its marker has
\* them and its meter identity exactly when its item text has a meter line
PartKeysMatched(part, ms, i, text) ==
    /\ \A key \in {"start_meter", "end_meter"} :
         key \in DOMAIN part <=> (ms # <<>> /\ HasGroup(ms[i], key))
    /\ \A key \in MeterKeys :
         key \in DOMAIN part <=> MeterLineIn(ItemText(ms, i, text))
    /\ ItemsKeysMatched(part.items,
                        ReFindIter(ITEM_REGEX, ItemText(ms, i, text)),
                        ItemText(ms, i, text))

\* C17: in the parts _parse_service_bill returns, an optional field is a
\* key of a part or of an item exactly when the group it comes from took
\* part in the match, and it then holds a value: start_meter and end_meter
\* with the readings of the marker, meter_number and service_category with
\* a meter line in the item text, start, end, date, usage and rate with the
\* groups of the item line, size and count with a trash description.
C17_OptionalOnlyWhenMatched ==
    ReturnedFrom("_parse_service_bill") =>
        \A i \in 1..Len(unit.ret) :
            PartKeysMatched(unit.ret[i], Markers(unit.arg), i, unit.arg)

\* parts returned with an item that has a usage and a rate and one that
\* has none, and with a part that has meter readings
C17_Witness ==
    /\ ReturnedFrom("_parse_service_bill")
    /\ \E i \in 1..Len(unit.ret) : "start_meter" \in DOMAIN unit.ret[i]
    /\ \E i \in 1..Len(unit.ret) : \E k \in 1..Len(unit.ret[i].items) :
         "rate" \in DOMAIN unit.ret[i].items[k]
    /\ \E i \in 1..Len(unit.ret) : \E k \in 1..Len(unit.ret[i].items) :
         DOMAIN unit.ret[i].items[k] = {"description", "cost"}

(***************************************************************************)
(* Properties of parse on numbers that are no valid decimals               *)
(***************************************************************************)
\* whether a usage-period marker of text has a usage or a meter reading
\* that float() does not accept
LooseMarkerIn(text) ==
    \E k \in 1..Len(Markers(text)) :
        \E key \in {"usage", "start_meter", "end_meter"} :
            /\ HasGroup(Markers(text)[k], key)
            /\ Group(Markers(text)[k], text, key)[1] \in LooseLex

\* whether text has "<usage> CCF @ $<rate> per CCF <cost>" with a rate that
\* float() does not accept
LooseRateIn(text) ==
    \E i \in 5..Len(text) :
        /\ text[i - 4] \in CostLex
        /\ OccursAt(<<SP, "CCF", SP, "@", SP, "$">>, text, i - 3)
        /\ i + 9 <= Len(text)
        /\ text[i + 3] \in LooseLex
        /\ OccursAt(<<SP, "per", SP, "CCF", SP>>, text, i + 4)
        /\ text[i + 9] \in CostLex

\* C18: a call of parse whose header was found ends with a ValueError, and
\* with no bill, exactly when a numeric group matched in the body (the
\* usage or a meter reading of a usage-period marker, the rate of a line
\* item) is no valid decimal; such a value is never skipped or defaulted.
C18_MalformedNumberAborts ==
    \A c \in Finished :
        HeaderFound(c) =>
            /\ call[c].raised = "ValueError"
                 <=> (LooseMarkerIn(call[c].body_text)
                        \/ LooseRateIn(call[c].body_text))
            /\ call[c].raised = "ValueError"
                 => ~call[c].returned /\ call[c].result = <<>>

\* a call that failed with ValueError on the usage of a marker, its header
\* found
C18_Witness ==
    \E c \in Rejected :
        /\ HeaderFound(c)
        /\ call[c].raised = "ValueError"
        /\ LooseMarkerIn(call[c].body_text)
        /\ ~LooseRateIn(call[c].body_text)
        /\ call[c].result = <<>>

(***************************************************************************)
(* Properties of _visitor_body                                             *)
(***************************************************************************)
\* whether the fragment is right of x = 240 and its font, the subset prefix
\* before "+" aside, is ArialMT or Arial-BoldMT
Qualifies(frag) ==
    /\ frag.x > 240
    /\ ~frag.font_dict.none
    /\ frag.font_dict.BaseFont[Len(frag.font_dict.BaseFont)]
         \in {"ArialMT", "Arial-BoldMT"}

\* the texts of the parts
TextsOf(parts) == [k \in 1..Len(parts) |-> parts[k].text]

\* the texts of the fragments of page that qualify, in the order of the
\* page, the artifact token taken out
QualifyingTexts(page) ==
    [k \in 1..Len(SelectSeq(page, Qualifies)) |->
       SelectSeq(SelectSeq(page, Qualifies)[k].text,
                 LAMBDA atom : atom # "O00934")]

RestOfLine(text, p) ==
    SubSeqOf(text, p + 1,
             IF \E e \in (p + 1)..Len(text) : text[e] = NL
             THEN (CHOOSE e \in (p + 1)..Len(text) :
                     text[e] = NL /\ \A d \in (p + 1)..(e - 1) : text[d] # NL) - 1
             ELSE Len(text))

\* C20: for every item _parse_items returns, the cost matched is the last
\* amount of its physical line, and nothing but blanks and the credit
\* marker follows it on that line.
C20_CostIsTrailingAmount ==
    ReturnedFrom("_parse_items") =>
        \A k \in 1..Len(ReFindIter(ITEM_REGEX, unit.arg)) :
            \A a \in 1..Len(RestOfLine(unit.arg,
                              ReFindIter(ITEM_REGEX, unit.arg)[k].caps.cost[1])) :
                RestOfLine(unit.arg,
                           ReFindIter(ITEM_REGEX, unit.arg)[k].caps.cost[1])[a]
                  \in {SP, "CR"}


(***************************************************************************)
(* Properties of the turns of _normalize_solid_waste_text                  *)
(***************************************************************************)
\* the logical lines the normalizer holds when it comes to line k of text
LogicalBefore(text, k) ==
    NormalizeLines(<<>>, SubSeq(SplitNl(text), 1, k - 1))

\* the logical lines the normalizer holds once it is through line k of text
LogicalAfter(text, k) ==
    NormalizeLines(<<>>, SubSeq(SplitNl(text), 1, k))

\* line k of text without the blanks at its ends
LineAt(text, k) == Strip(SplitNl(text)[k])

\* line is a date token and nothing else
LoneDate(line) == Len(line) = 5 /\ DateAt(line, 1)

\* line is a cost and nothing else
BareCost(line) == Len(line) = 1 /\ line[1] \in CostLex

\* line is a frequency keyword and nothing else
BareFrequency(line) == Len(line) = 1 /\ line[1] \in FreqLex

\* line, coming after the logical line prev, is none of: a two-date start, a
\* bare cost, a frequency keyword, a lone date after a lone first date
OtherLine(line, prev) ==
    /\ line # <<>>
    /\ ~TwoDatesStart(line)
    /\ ~BareCost(line)
    /\ ~BareFrequency(line)
    /\ ~(LoneDate(line) /\ LoneDate(prev))

\* prev with line appended to its last logical line, a blank between them
Joined(prev, line) == SetLast(prev, Last(prev) \o <<SP>> \o line)

\* C21: a line that is neither a two-date start, nor a bare cost, nor a
\* frequency keyword, nor a lone date following a lone first date is appended
\* to the previous logical line if that line does not end with a cost, and
\* starts a new logical line if it does.
C21_OtherLineByTrailingCost ==
    Normalized =>
        \A k \in 2..Len(SplitNl(unit.arg)) :
            (/\ LogicalBefore(unit.arg, k) # <<>>
             /\ OtherLine(LineAt(unit.arg, k),
                          Last(LogicalBefore(unit.arg, k))))
            => LogicalAfter(unit.arg, k)
                 = IF Last(Last(LogicalBefore(unit.arg, k))) \in CostLex
                   THEN Append(LogicalBefore(unit.arg, k),
                               LineAt(unit.arg, k))
                   ELSE Joined(LogicalBefore(unit.arg, k),
                               LineAt(unit.arg, k))

\* C21 holds for the lines that do not start with a date after a logical
\* line that starts with one date.
C21_OtherLineNoLeadingDates ==
    Normalized =>
        \A k \in 2..Len(SplitNl(unit.arg)) :
            (/\ LogicalBefore(unit.arg, k) # <<>>
             /\ OtherLine(LineAt(unit.arg, k),
                          Last(LogicalBefore(unit.arg, k)))
             /\ ~(/\ DateAt(LineAt(unit.arg, k), 1)
                  /\ DateAt(Last(LogicalBefore(unit.arg, k)), 1)))
            => LogicalAfter(unit.arg, k)
                 = IF Last(Last(LogicalBefore(unit.arg, k))) \in CostLex
                   THEN Append(LogicalBefore(unit.arg, k),
                               LineAt(unit.arg, k))
                   ELSE Joined(LogicalBefore(unit.arg, k),
                               LineAt(unit.arg, k))


\* C22: a line starting with two consecutive date tokens begins a new
\* logical line, whether or not the previous logical line ends with a cost;
\* it is never appended to the previous line.
C22_TwoDatesStartNewLine ==
    Normalized =>
        \A k \in 1..Len(SplitNl(unit.arg)) :
            TwoDatesStart(LineAt(unit.arg, k))
            => LogicalAfter(unit.arg, k)
                 = Append(LogicalBefore(unit.arg, k), LineAt(unit.arg, k))

\* a two-date line came after a logical line that has no trailing cost
C22_Witness ==
    /\ Normalized
    /\ \E k \in 2..Len(SplitNl(unit.arg)) :
         /\ TwoDatesStart(LineAt(unit.arg, k))
         /\ LogicalBefore(unit.arg, k) # <<>>
         /\ Last(Last(LogicalBefore(unit.arg, k))) \notin CostLex
         /\ Len(SplitNl(unit.ret)) = Len(LogicalBefore(unit.arg, k)) + 1


(***************************************************************************)
(* Properties of the sections found by SERVICE_REGEX                       *)
(***************************************************************************)
\* the sections _parse_services goes through in text
SectionsOf(text) == ReFindIter(SERVICE_REGEX, text)

\* "Current <name>: <amount>" stands at p in text
OwnTrailerAt(name, text, p) ==
    /\ OccursAt(<<"Current", SP>> \o name \o <<":", SP>>, text, p)
    /\ p + Len(name) + 4 <= Len(text)
    /\ text[p + Len(name) + 4] \in CostLex

\* the section m of text: it begins with its name, its sub-body runs from
\* the end of the name to where its trailer begins, the trailer carries the
\* very name and then the total, and no trailer of that name stands further
\* inside the sub-body
SectionSpans(m, text) ==
    /\ m.caps.service[1] = m.start
    /\ m.caps.bill[1] = m.caps.service[2]
    /\ m.caps.bill[1] < m.caps.bill[2]
    /\ OwnTrailerAt(Group(m, text, "service"), text, m.caps.bill[2])
    /\ m.caps.total[1] = m.caps.bill[2] + Len(Group(m, text, "service")) + 4
    /\ m.caps.total[2] <= m.end
    /\ \A p \in (m.caps.bill[1] + 1)..(m.caps.bill[2] - 1) :
         ~OwnTrailerAt(Group(m, text, "service"), text, p)

\* the entry of services[k] was made from a section of that name and total
EntryFromSection(entry, ms, text) ==
    \E k \in 1..Len(ms) :
        /\ entry.name = Group(ms[k], text, "service")
        /\ entry.total.cents = CentsOf(Group(ms[k], text, "total")[1])

\* the sections ms of text, which gave the entries services
SectionsInOrder(ms, text, services) ==
    /\ \A k \in 1..Len(ms) : SectionSpans(ms[k], text)
    /\ \A k \in 1..(Len(ms) - 1) : ms[k].end <= ms[k + 1].start
    /\ \A k \in 1..Len(services) : EntryFromSection(services[k], ms, text)

\* C23: for every section found, the name in its "Current <name>:" trailer
\* is the captured service name, the sub-body lies between the name and the
\* trailer and excludes the trailer, and the sections do not overlap and come
\* in document order; every entry of the output was made from such a section.
C23_SectionsAnchored ==
    \A c \in Calls :
        "services" \in DOMAIN call[c].parsed_data =>
            SectionsInOrder(SectionsOf(call[c].body_text), call[c].body_text,
                            call[c].parsed_data.services)

\* two sections of different names were found, the second one with a credit
\* marker after its total, and gave two entries
C23_Witness ==
    \E c \in Calls :
        /\ "services" \in DOMAIN call[c].parsed_data
        /\ Len(SectionsOf(call[c].body_text)) = 2
        /\ SectionsOf(call[c].body_text)[1].end
             < SectionsOf(call[c].body_text)[2].start
        /\ HasGroup(SectionsOf(call[c].body_text)[2], "service_credit")
        /\ Len(call[c].parsed_data.services) = 2

\* a section was found after text that belongs to no section
C23_SkippedText ==
    \E c \in Calls :
        /\ "services" \in DOMAIN call[c].parsed_data
        /\ Len(SectionsOf(call[c].body_text)) = 1
        /\ SectionsOf(call[c].body_text)[1].start > 1


(***************************************************************************)
(* Properties of BillParser.parse against BillManager._parse_bill          *)
(***************************************************************************)
\* no text of pages holds the credit marker
NoCreditMarker(pages) ==
    \A p \in 1..Len(pages) : \A f \in 1..Len(pages[p]) :
        \A k \in 1..Len(pages[p][f].text) : pages[p][f].text[k] # "CR"

\* no section of text is named after solid waste
NoSolidWaste(text) ==
    \A k \in 1..Len(SectionsOf(text)) :
        ~Contains(Group(SectionsOf(text)[k], text, "service"),
                  <<"Solid", SP, "Waste">>)

\* the totals of the services found sum to the total of the header found
TotalsAgree(header, services) ==
    (header.raised = "" /\ services.raised = "")
        => ServicesTotal(services.value) = Val(header.value.total)

\* the bills C24 is about
NonCreditBill(pages) ==
    /\ NoCreditMarker(pages)
    /\ NoSolidWaste(AloneBodyText(pages))
    /\ TotalsAgree(parse_header(AloneHeaderText(pages)),
                   parse_services(AloneBodyText(pages)))

\* both parsers are through with the bill
BothFinished ==
    /\ call["a"].pc \in {"done", "raised"}
    /\ unit.method = "_parse_bill" /\ unit.pc \in {"returned", "raised"}

\* C24: on a bill text with no credit marker, no solid waste service and
\* service totals that sum to the header total, BillParser.parse and
\* BillManager._parse_bill end alike: both raise the same exception, or both
\* return, and then the same structure.
C24_SameOnNonCreditBills ==
    (BothFinished /\ NonCreditBill(unit.arg))
        => /\ call["a"].raised = unit.raised
           /\ call["a"].returned <=> unit.pc = "returned"
           /\ call["a"].returned => call["a"].result = unit.ret

\* both returned such a bill, one of two services with a usage period
C24_Witness ==
    /\ BothFinished /\ NonCreditBill(unit.arg)
    /\ call["a"].returned /\ unit.pc = "returned"
    /\ Len(unit.ret.services) = 2
    /\ \E k \in 1..2 : "usage" \in DOMAIN unit.ret.services[k].parts[1]

\* both rejected such a bill on a service total
C24_BothReject ==
    /\ BothFinished /\ NonCreditBill(unit.arg)
    /\ call["a"].raised = "AssertionError" /\ unit.raised = "AssertionError"

\* without the conditions of C24 the two parsers end alike as well
C24_SameOnAllBills ==
    BothFinished
        => /\ call["a"].raised = unit.raised
           /\ call["a"].returned => call["a"].result = unit.ret


(***************************************************************************)
(* Properties of the item texts of _parse_service_bill                     *)
(***************************************************************************)
\* the text before the first of the markers ms, all of text when there is
\* no marker
LeadingText(ms, text) ==
    IF ms = <<>> THEN text ELSE SubSeqOf(text, 1, ms[1].start - 1)

\* the line items of text: those of the text before the first marker, then
\* those of the text after each marker
SegmentItems(ms, text) ==
    parse_items(LeadingText(ms, text)).value
    \o Flatten([i \in 1..Len(ms) |->
                  parse_items(TextAfter(ms, i, text)).value])

\* C25: the items of the parts _parse_service_bill returns, taken together,
\* are the line items of the sub-body, each once and in order, those before
\* the first usage-period marker included.
C25_NoItemLost ==
    ReturnedFrom("_parse_service_bill") =>
        ItemsOf([parts |-> unit.ret])
          = SegmentItems(Markers(unit.arg), unit.arg)

\* C25 holds for the sub-bodies with no line item before the first marker.
C25_NoItemLostAfterMarkers ==
    (/\ ReturnedFrom("_parse_service_bill")
     /\ Len(Markers(unit.arg)) >= 1
          => parse_items(LeadingText(Markers(unit.arg), unit.arg)).value = <<>>)
    => ItemsOf([parts |-> unit.ret])
         = SegmentItems(Markers(unit.arg), unit.arg)


(***************************************************************************)
(* Properties of the content of the normalized text                        *)
(***************************************************************************)
RECURSIVE TokensFrom(_, _, _)
\* the tokens of text from position i on, word being the lexemes of the
\* token begun
TokensFrom(text, i, word) ==
    IF i > Len(text) THEN (IF word = <<>> THEN <<>> ELSE <<word>>)
    ELSE IF text[i] \in WsAtoms
         THEN (IF word = <<>> THEN <<>> ELSE <<word>>)
              \o TokensFrom(text, i + 1, <<>>)
         ELSE TokensFrom(text, i + 1, Append(word, text[i]))

\* the whitespace-separated tokens of text, in order
Tokens(text) == TokensFrom(text, 1, <<>>)

\* the lines of text that hold a token
NonBlankLines(text) ==
    {k \in 1..Len(SplitNl(text)) : Tokens(SplitNl(text)[k]) # <<>>}

\* the number of lines of text, the empty text having none
LineCount(text) == IF text = <<>> THEN 0 ELSE Len(SplitNl(text))

\* C26: the whitespace-separated tokens of the text the normalizer returns
\* are those of its input, in the same order and number, and the text
\* returned has no more lines than the input has non-blank lines.
C26_ContentPreserved ==
    Normalized =>
        /\ Tokens(unit.ret) = Tokens(unit.arg)
        /\ LineCount(unit.ret) <= Cardinality(NonBlankLines(unit.arg))

\* a text with a blank line and a line that begins with a blank, of which
\* lines were joined
C26_Witness ==
    /\ Normalized
    /\ \E k \in 1..Len(SplitNl(unit.arg)) : SplitNl(unit.arg)[k] = <<>>
    /\ LineCount(unit.ret) < Cardinality(NonBlankLines(unit.arg))
    /\ LineCount(unit.ret) >= 1


(***************************************************************************)
(* The ingestion paths: scrape and refresh_bill of scraper/main.py, and    *)
(* BillManager.sync_all_bills.  A request is a process; it takes a step    *)
(* for each statement that reads or writes the store or parses a bill.     *)
(***************************************************************************)
\* the bill dates the billing history of the web site lists
BillDates == {"12/01/2024", "01/01/2025"}

\* what check_for_new_bills and _download_all_bills may find there
SiteBills == {<<>>, <<"12/01/2024">>, <<"12/01/2024", "01/01/2025">>}

\* a bill of one service that reconciles
PdfPlain ==
    <<<<Frag(DueDateLine), Frag(BillingLine("5.00"))>>,
      Section(<<"Water">>, <<Sp(<<"Base", "Fee", "3.00">>),
                             Sp(<<"Usage", "2.00">>)>>, "5.00", FALSE)>>
\* a bill with an adjustments service of one dated item
PdfAdjusted ==
    <<<<Frag(DueDateLine), Frag(BillingLine("7.00"))>>,
      Section(<<"Water">>, <<Sp(<<"Base", "Fee", "3.00">>),
                             Sp(<<"Usage", "2.00">>)>>, "5.00", FALSE),
      Section(<<"Adjustments">>,
              <<Sp(<<"Late", "Fee", "Dec", "15,", "2025", "2.00">>)>>,
              "2.00", FALSE)>>
\* a bill whose service total fails the assertion of the validator
PdfBad ==
    <<<<Frag(DueDateLine), Frag(BillingLine("5.00"))>>,
      Section(<<"Water">>, <<Sp(<<"Base", "Fee", "3.00">>)>>, "5.00", FALSE)>>

\* the files download_bill may fetch for a bill date
SitePdfs == {PdfPlain, PdfAdjusted, PdfBad}

\* parser.parse(str(pdf_path)) for each of these files
Parsed == [pdf \in SitePdfs |-> ParseAlone(pdf)]
\* self._parse_bill(str(final_pdf_path)) for each of these files
ManagerParsed == [pdf \in SitePdfs |-> bm_parse_bill(pdf)]

\* item.get("date")
None == <<"None">>
DateOf(item) == IF "date" \in DOMAIN item THEN item.date ELSE None

\* the adjustments of the items of one service
AdjustmentsOf(service_data) ==
    [k \in 1..Len(ItemsOf(service_data)) |->
       [description |-> ItemsOf(service_data)[k].description,
        cost |-> ItemsOf(service_data)[k].cost,
        date |-> DateOf(ItemsOf(service_data)[k])]]

\* extract_adjustments(parsed_data)
extract_adjustments(parsed_data) ==
    Flatten([k \in 1..Len(parsed_data.services) |->
               IF IsAdjustment(parsed_data.services[k].name)
               THEN AdjustmentsOf(parsed_data.services[k]) ELSE <<>>])

\* any("adjustment" in service.lower() for service in services.keys())
has_adjustments(parsed_data) ==
    \E k \in 1..Len(parsed_data.services) :
        IsAdjustment(parsed_data.services[k].name)

\* the documents adjustments_ref.add(...) makes of the adjustments
AdjustmentDocs(adjustments) ==
    [k \in 1..Len(adjustments) |->
       [description |-> adjustments[k].description,
        cost |-> adjustments[k].cost,
        date |-> adjustments[k].date,
        assigned_unit_ids |-> <<>>]]

\* the ids of the bill documents with this bill_date, in the order of their
\* ids
WithBillDate(bills, date) ==
    {id \in 1..Len(bills) : bills[id].bill_date = date}

\* list(db.collection("bills").where("bill_date", "==", date).limit(1)
\* .stream()): the id of the document found, 0 when the list is empty
Existing(bills, date) ==
    IF WithBillDate(bills, date) = {} THEN 0
    ELSE CHOOSE id \in WithBillDate(bills, date) :
             \A other \in WithBillDate(bills, date) : id <= other

\* the document bill_ref.set(bill_data) writes (timestamps and approval
\* fields left out), its adjustments subcollection empty
BillData(date, parsed_data) ==
    [bill_date |-> date,
     due_date |-> parsed_data.due_date,
     total_amount |-> parsed_data.total,
     pdf_url |-> date,
     status |-> IF has_adjustments(parsed_data) THEN "NEEDS_REVIEW"
                ELSE "NEW",
     has_adjustments |-> has_adjustments(parsed_data),
     services |-> parsed_data.services,
     adjustments |-> <<>>]

\* db.collection("bills").document(id).update({services, due_date,
\* total_amount})
Updated(bills, id, parsed_data) ==
    [bills EXCEPT ![id].services = parsed_data.services,
                  ![id].due_date = parsed_data.due_date,
                  ![id].total_amount = parsed_data.total]

\* "if has_adjustments:" every document of the subcollection is deleted,
\* then one is added per adjustment extracted
Readjusted(bills, id, parsed_data) ==
    IF has_adjustments(parsed_data)
    THEN [bills EXCEPT ![id].adjustments =
                           AdjustmentDocs(extract_adjustments(parsed_data))]
    ELSE bills

\* the blobs with the file pdf uploaded under the name of the bill date
Uploaded(blobs, date, pdf) ==
    [name \in DOMAIN blobs \cup {date} |->
       IF name = date THEN pdf ELSE blobs[name]]

\* the locals of a request that has not started, with the requests the
\* client sends one after the other
Idle(todo) ==
    [kind |-> "none", pc |-> "idle", todo |-> todo, force_update |-> FALSE,
     bill_id |-> 0, bills |-> <<>>, i |-> 1, existing |-> 0,
     pdf |-> <<>>, parsed_data |-> <<>>, bill_ref |-> 0,
     new_bills |-> <<>>, updated_bills |-> <<>>, errors |-> <<>>,
     response |-> <<>>]

\* a request to /scrape for seattle_utilities
ScrapeRequest(force_update) ==
    [kind |-> "scrape", force_update |-> force_update, bill_id |-> 0]
\* a request to /refresh-bill
RefreshRequest(bill_id) ==
    [kind |-> "refresh", force_update |-> FALSE, bill_id |-> bill_id]
\* a call of sync_all_bills
SyncRequest == [kind |-> "sync", force_update |-> FALSE, bill_id |-> 0]

\* the locals when the first request of todo starts
Started(todo) ==
    [Idle(Tail(todo)) EXCEPT !.kind = Head(todo).kind, !.pc = "start",
                             !.force_update = Head(todo).force_update,
                             !.bill_id = Head(todo).bill_id]

\* the client of r sends its next request once the last one is answered
Start(r) ==
    /\ run[r].pc \in {"idle", "done"}
    /\ run[r].todo # <<>>
    /\ run' = [run EXCEPT ![r] = Started(run[r].todo)]
    /\ UNCHANGED <<call, log, unit, lists, store>>

\* the locals once the loop over bills goes to its next turn, or is over
Continued(l) ==
    IF l.i < Len(l.bills) THEN [l EXCEPT !.i = l.i + 1, !.pc = "query"]
    ELSE [l EXCEPT !.i = l.i + 1, !.pc = "return"]

\* the request answered with response
Answered(l, response) == [l EXCEPT !.pc = "done", !.response = response]

\* the answer of scrape when scrape_seattle_utilities raised exc
ScrapeError(exc) == [success |-> FALSE, status |-> 500, error |-> exc]

\* the dictionary scrape_seattle_utilities returns without credentials
MissingCredentials ==
    [error |-> "Missing credentials", new_bills |-> <<>>,
     updated_bills |-> <<>>]

\* creds = get_utility_credentials(); bills = scraper.check_for_new_bills()
CheckForNewBills(r) ==
    /\ run[r].kind = "scrape" /\ run[r].pc = "start"
    /\ \E creds \in BOOLEAN, bills \in SiteBills :
         run' = [run EXCEPT
                   ![r] = IF ~creds
                          THEN Answered(run[r],
                                        [success |-> TRUE, status |-> 200,
                                         seattle_utilities |->
                                             MissingCredentials])
                          ELSE [run[r] EXCEPT
                                  !.bills = bills,
                                  !.pc = IF bills = <<>> THEN "return"
                                         ELSE "query"]]
    /\ UNCHANGED <<call, log, unit, lists, store>>

\* the locals after "existing = list(...)" and the two tests on it
Queried(l, existing) ==
    IF existing # 0 /\ ~l.force_update
    THEN Continued([l EXCEPT !.existing = existing])
    ELSE [l EXCEPT !.existing = existing, !.pc = "parse"]

\* existing = list(db.collection("bills").where(...).limit(1).stream())
QueryExisting(r) ==
    /\ run[r].kind = "scrape" /\ run[r].pc = "query"
    /\ run' = [run EXCEPT
                 ![r] = Queried(run[r],
                                Existing(store.bills,
                                         run[r].bills[run[r].i]))]
    /\ UNCHANGED <<call, log, unit, lists, store>>

\* the bill written whatever parser.parse gave
ScrapeParsedUnchecked(l, pdf, parsed) ==
    [l EXCEPT !.pdf = pdf, !.parsed_data = parsed.result,
              !.pc = IF l.existing # 0 THEN "update" ELSE "set"]

\* the locals of scrape_seattle_utilities after parser.parse gave parsed
\* for the file pdf: an exception leaves the loop and the function, and
\* scrape answers with it
ScrapeParsed(l, pdf, parsed) ==
    IF parsed.raised # ""
    THEN Answered([l EXCEPT !.pdf = pdf], ScrapeError(parsed.raised))
    ELSE [l EXCEPT !.pdf = pdf, !.parsed_data = parsed.result,
                   !.pc = IF l.existing # 0 THEN "update" ELSE "set"]

\* pdf_path = scraper.download_bill(...); parsed_data = parser.parse(...)
DownloadAndParse(r) ==
    /\ run[r].kind = "scrape" /\ run[r].pc = "parse"
    /\ \E pdf \in SitePdfs :
         run' = [run EXCEPT ![r] = ScrapeParsed(run[r], pdf, Parsed[pdf])]
    /\ UNCHANGED <<call, log, unit, lists, store>>

\* db.collection("bills").document(existing_doc.id).update({...})
UpdateExisting(r) ==
    /\ run[r].kind = "scrape" /\ run[r].pc = "update"
    /\ store' = [store EXCEPT
                   !.bills = Updated(store.bills, run[r].existing,
                                     run[r].parsed_data)]
    /\ run' = [run EXCEPT ![r].pc = "readjust"]
    /\ UNCHANGED <<call, log, unit, lists>>

\* the adjustments written again, then updated_bills.append({...})
ReadjustExisting(r) ==
    /\ run[r].kind = "scrape" /\ run[r].pc = "readjust"
    /\ store' = [store EXCEPT
                   !.bills = Readjusted(store.bills, run[r].existing,
                                        run[r].parsed_data)]
    /\ run' = [run EXCEPT
                 ![r] = Continued(
                          [run[r] EXCEPT
                             !.updated_bills =
                                 Append(run[r].updated_bills,
                                        [id |-> run[r].existing,
                                         date |-> run[r].bills[run[r].i]])])]
    /\ UNCHANGED <<call, log, unit, lists>>

\* blob.upload_from_filename(...); bill_ref = db.collection("bills")
\* .document(); bill_ref.set(bill_data)
SetNewBill(r) ==
    /\ run[r].kind = "scrape" /\ run[r].pc = "set"
    /\ store' = [store EXCEPT
                   !.blobs = Uploaded(store.blobs, run[r].bills[run[r].i],
                                      run[r].pdf),
                   !.bills = Append(store.bills,
                                    BillData(run[r].bills[run[r].i],
                                             run[r].parsed_data))]
    /\ run' = [run EXCEPT ![r].bill_ref = Len(store.bills) + 1,
                          ![r].pc = "adjust"]
    /\ UNCHANGED <<call, log, unit, lists>>

\* the adjustments added to the new document, then new_bills.append({...})
\* (the readings auto_populate_readings adds to the document are left out)
AddAdjustments(r) ==
    /\ run[r].kind = "scrape" /\ run[r].pc = "adjust"
    /\ store' = [store EXCEPT
                   !.bills[run[r].bill_ref].adjustments =
                       store.bills[run[r].bill_ref].adjustments
                       \o AdjustmentDocs(
                            extract_adjustments(run[r].parsed_data))]
    /\ run' = [run EXCEPT
                 ![r] = Continued(
                          [run[r] EXCEPT
                             !.new_bills =
                                 Append(run[r].new_bills,
                                        [id |-> run[r].bill_ref,
                                         date |-> run[r].bills[run[r].i]])])]
    /\ UNCHANGED <<call, log, unit, lists>>

\* return {"new_bills": ..., "updated_bills": ..., "total_checked": ...},
\* which scrape puts into its answer
ReturnScraped(r) ==
    /\ run[r].kind = "scrape" /\ run[r].pc = "return"
    /\ run' = [run EXCEPT
                 ![r] = Answered(run[r],
                                 [success |-> TRUE, status |-> 200,
                                  seattle_utilities |->
                                      [new_bills |-> run[r].new_bills,
                                       updated_bills |->
                                           run[r].updated_bills,
                                       total_checked |->
                                           Len(run[r].bills)]])]
    /\ UNCHANGED <<call, log, unit, lists, store>>


\* the answer of refresh_bill when the bill document does not exist
BillNotFound ==
    [success |-> FALSE, status |-> 404, error |-> "Bill not found"]

\* bill_doc = bill_ref.get(); "if not bill_doc.exists: return ..., 404"
GetBill(r) ==
    /\ run[r].kind = "refresh" /\ run[r].pc = "start"
    /\ run' = [run EXCEPT
                 ![r] = IF run[r].bill_id \notin 1..Len(store.bills)
                        THEN Answered(run[r], BillNotFound)
                        ELSE [run[r] EXCEPT !.existing = run[r].bill_id,
                                            !.pc = "parse"]]
    /\ UNCHANGED <<call, log, unit, lists, store>>

\* the locals of refresh_bill after parser.parse gave parsed: the handler
\* answers an exception with status 500
RefreshParsed(l, pdf, parsed) ==
    IF parsed.raised # ""
    THEN Answered([l EXCEPT !.pdf = pdf], ScrapeError(parsed.raised))
    ELSE [l EXCEPT !.pdf = pdf, !.parsed_data = parsed.result,
                   !.pc = "update"]

\* blob.download_to_filename(pdf_path); parsed_data = parser.parse(pdf_path)
\* on the file stored for the bill
RefreshParse(r) ==
    /\ run[r].kind = "refresh" /\ run[r].pc = "parse"
    /\ store.bills[run[r].existing].pdf_url \in DOMAIN store.blobs
    /\ run' = [run EXCEPT
                 ![r] = RefreshParsed(
                          run[r],
                          store.blobs[store.bills[run[r].existing].pdf_url],
                          Parsed[store.blobs[
                                   store.bills[run[r].existing].pdf_url]])]
    /\ UNCHANGED <<call, log, unit, lists, store>>

\* bill_ref.update({services, due_date, total_amount})
RefreshUpdate(r) ==
    /\ run[r].kind = "refresh" /\ run[r].pc = "update"
    /\ store' = [store EXCEPT
                   !.bills = Updated(store.bills, run[r].existing,
                                     run[r].parsed_data)]
    /\ run' = [run EXCEPT ![r].pc = "readjust"]
    /\ UNCHANGED <<call, log, unit, lists>>

\* the adjustments written again, and the answer of refresh_bill
RefreshAdjust(r) ==
    /\ run[r].kind = "refresh" /\ run[r].pc = "readjust"
    /\ store' = [store EXCEPT
                   !.bills = Readjusted(store.bills, run[r].existing,
                                        run[r].parsed_data)]
    /\ run' = [run EXCEPT
                 ![r] = Answered(run[r],
                                 [success |-> TRUE, status |-> 200,
                                  bill_id |-> run[r].bill_id])]
    /\ UNCHANGED <<call, log, unit, lists>>

\* f"data/bills/utility_bill_{bill_date_str.replace('/', '-')}.pdf"
FinalPdfPath(bill_date_str) == <<"utility_bill_", bill_date_str, ".pdf">>

\* crud.get_bill_by_pdf_path(self.db, str(final_pdf_path)): the rows with
\* this pdf_path
BillsByPdfPath(rows, pdf_path) ==
    {id \in 1..Len(rows) : rows[id].pdf_path = pdf_path}

\* models.Bill(bill_date=..., ..., status="NEW"), no adjustment saved yet
NewBill(bill_date_str, parsed_data) ==
    [bill_date |-> bill_date_str,
     due_date |-> parsed_data.due_date,
     total_amount |-> parsed_data.total,
     pdf_path |-> FinalPdfPath(bill_date_str),
     status |-> "NEW",
     parsed_adjustments |-> <<>>]

\* the names of the adjustment services of parsed_data, in the order of
\* the dictionary
AdjustmentServices(services) ==
    SelectSeq(services, LAMBDA entry : IsAdjustment(entry.name))

\* the rows _save_parsed_adjustments creates: those of the items of the
\* first adjustment service
ParsedAdjustments(parsed_data) ==
    IF AdjustmentServices(parsed_data.services) = <<>> THEN <<>>
    ELSE AdjustmentsOf(Head(AdjustmentServices(parsed_data.services)))

\* the locals after "except Exception as e: log.error(...)" inside the
\* loop of sync_all_bills
SyncFailed(l, exc) ==
    Continued([l EXCEPT !.errors = Append(l.errors, exc)])

\* bill_data_list = self._download_all_bills(), returning at once when the
\* list is empty
DownloadAllBills(r) ==
    /\ run[r].kind = "sync" /\ run[r].pc = "start"
    /\ \E bills \in SiteBills :
         run' = [run EXCEPT
                   ![r] = IF bills = <<>> THEN Answered(run[r], <<>>)
                          ELSE [run[r] EXCEPT !.bills = bills,
                                              !.pc = "query"]]
    /\ UNCHANGED <<call, log, unit, lists, store>>

\* if crud.get_bill_by_pdf_path(self.db, str(final_pdf_path)): continue
GetBillByPdfPath(r) ==
    /\ run[r].kind = "sync" /\ run[r].pc = "query"
    /\ run' = [run EXCEPT
                 ![r] = IF BillsByPdfPath(
                             store.rows,
                             FinalPdfPath(run[r].bills[run[r].i])) # {}
                        THEN Continued(run[r])
                        ELSE [run[r] EXCEPT !.pc = "parse"]]
    /\ UNCHANGED <<call, log, unit, lists, store>>

\* the locals of sync_all_bills after _parse_bill gave parsed
SyncParsed(l, pdf, parsed) ==
    IF parsed.raised # ""
    THEN SyncFailed([l EXCEPT !.pdf = pdf], parsed.raised)
    ELSE [l EXCEPT !.pdf = pdf, !.parsed_data = parsed.value, !.pc = "set"]

\* downloaded_path.rename(final_pdf_path);
\* parsed_data = self._parse_bill(str(final_pdf_path))
SyncParse(r) ==
    /\ run[r].kind = "sync" /\ run[r].pc = "parse"
    /\ \E pdf \in SitePdfs :
         run' = [run EXCEPT
                   ![r] = SyncParsed(run[r], pdf, ManagerParsed[pdf])]
    /\ UNCHANGED <<call, log, unit, lists, store>>

\* created_bill = crud.create_bill(self.db, new_bill): the commit fails
\* when a row has the pdf_path already, pdf_path being unique
CreateBill(r) ==
    /\ run[r].kind = "sync" /\ run[r].pc = "set"
    /\ IF BillsByPdfPath(store.rows,
                         FinalPdfPath(run[r].bills[run[r].i])) # {}
       THEN /\ run' = [run EXCEPT
                         ![r] = SyncFailed(run[r], "IntegrityError")]
            /\ store' = store
       ELSE /\ store' = [store EXCEPT
                           !.rows = Append(store.rows,
                                           NewBill(run[r].bills[run[r].i],
                                                   run[r].parsed_data))]
            /\ run' = [run EXCEPT ![r].bill_ref = Len(store.rows) + 1,
                                  ![r].pc = "adjust"]
    /\ UNCHANGED <<call, log, unit, lists>>

\* self._save_parsed_adjustments(created_bill, parsed_data)
SaveParsedAdjustments(r) ==
    /\ run[r].kind = "sync" /\ run[r].pc = "adjust"
    /\ store' = [store EXCEPT
                   !.rows[run[r].bill_ref].parsed_adjustments =
                       ParsedAdjustments(run[r].parsed_data)]
    /\ run' = [run EXCEPT ![r] = Continued(run[r])]
    /\ UNCHANGED <<call, log, unit, lists>>

\* the loop of sync_all_bills is over
SyncDone(r) ==
    /\ run[r].kind = "sync" /\ run[r].pc = "return"
    /\ run' = [run EXCEPT ![r] = Answered(run[r], <<>>)]
    /\ UNCHANGED <<call, log, unit, lists, store>>

\* the requests the two clients send, one after the other each
Scenarios ==
    {<<<<ScrapeRequest(FALSE)>>, <<ScrapeRequest(FALSE)>>>>,
     <<<<ScrapeRequest(FALSE), ScrapeRequest(TRUE)>>,
       <<RefreshRequest(1)>>>>,
     <<<<ScrapeRequest(TRUE)>>, <<RefreshRequest(2)>>>>,
     <<<<SyncRequest>>, <<SyncRequest>>>>}

IngestInit ==
    /\ call = [c \in Calls |-> NoCall]
    /\ log = <<>>
    /\ unit = NoUnit
    /\ lists = NoLists
    /\ store = NoStore
    /\ \E todo \in Scenarios :
         run = [r \in Runs |-> Idle(IF r = "r1" THEN todo[1] ELSE todo[2])]

IngestNext ==
    \E r \in Runs :
        \/ Start(r)
        \/ CheckForNewBills(r)
        \/ QueryExisting(r)
        \/ DownloadAndParse(r)
        \/ UpdateExisting(r)
        \/ ReadjustExisting(r)
        \/ SetNewBill(r)
        \/ AddAdjustments(r)
        \/ ReturnScraped(r)
        \/ GetBill(r)
        \/ RefreshParse(r)
        \/ RefreshUpdate(r)
        \/ RefreshAdjust(r)
        \/ DownloadAllBills(r)
        \/ GetBillByPdfPath(r)
        \/ SyncParse(r)
        \/ CreateBill(r)
        \/ SaveParsedAdjustments(r)
        \/ SyncDone(r)

SpecIngest == IngestInit /\ [][IngestNext]_vars


(***************************************************************************)
(* Properties of the ingestion paths.                                      *)
(***************************************************************************)
\* the steps of a request that write a bill record or its adjustments
WritePcs == {"update", "readjust", "set", "adjust"}

\* what the parser of the path of l gives for the file pdf
ParseOf(l, pdf) ==
    IF l.kind = "sync"
    THEN [raised |-> ManagerParsed[pdf].raised,
          result |-> ManagerParsed[pdf].value]
    ELSE [raised |-> Parsed[pdf].raised, result |-> Parsed[pdf].result]

\* l is about to write what the parse of its file returned
WritesParsed(l) ==
    /\ l.pdf \in SitePdfs
    /\ ParseOf(l, l.pdf).raised = ""
    /\ l.parsed_data = ParseOf(l, l.pdf).result

\* the request that was at its parse step is through with the bill: it is
\* answered, or its loop is at a later bill
BillDropped(before, after) ==
    /\ after.pc \in {"done", "query", "return"}
    /\ after.pc # "done" => after.i = before.i + 1

\* the bill records of both stores
Records == <<store.bills, store.rows>>

\* C27: in scrape_seattle_utilities (new bills and force-updated ones),
\* refresh_bill and sync_all_bills alike, a step changes the stored bill
\* records only when it is a write step of a request whose parse of the
\* bill's file returned, and it writes what that parse returned; the step in
\* which a parse fails changes no record and leaves the request through
\* with the bill, so that no write for it follows.
C27_WriteOnlyAfterParse ==
    [][/\ Records' # Records =>
            \E r \in Runs : /\ run[r].pc \in WritePcs
                            /\ run'[r] # run[r]
                            /\ WritesParsed(run[r])
       /\ \A r \in Runs :
            /\ run'[r].pc \in WritePcs => WritesParsed(run'[r])
            /\ (/\ run[r].pc = "parse"
                /\ run'[r] # run[r]
                /\ ParseOf(run'[r], run'[r].pdf).raised # "")
               => /\ Records' = Records
                  /\ BillDropped(run[r], run'[r])]_vars

\* a bill was created, force-updated by a later request and refreshed, each
\* after its parse
C27_Witness ==
    /\ run["r1"].kind = "scrape" /\ run["r1"].pc = "done"
    /\ run["r1"].force_update /\ run["r1"].updated_bills # <<>>
    /\ run["r2"].kind = "refresh" /\ run["r2"].pc = "done"
    /\ run["r2"].response.status = 200
    /\ Len(store.bills) >= 1

\* a parse failed in sync_all_bills and in scrape_seattle_utilities, and
\* nothing was stored for the bill
C27_FailedParse ==
    \E r \in Runs :
        /\ run[r].pc \in {"done", "query", "return"}
        /\ run[r].pdf = PdfBad
        /\ Records = <<<<>>, <<>>>>


\* the adjustments stored for the bill document id
StoredAdjustments(bills, id) == bills[id].adjustments

\* r takes the last step of a re-parse of an existing bill: of a forced
\* update in scrape_seattle_utilities, or of refresh_bill
ReparseCompletes(r) ==
    /\ run[r].kind \in {"scrape", "refresh"}
    /\ run[r].pc = "readjust"
    /\ run'[r] # run[r]

\* C28: when refresh_bill or a forced update of scrape_seattle_utilities
\* completes for a bill, the adjustments stored for the bill are exactly
\* those extracted from the data just parsed, none of an earlier parse
\* remaining.
C28_AdjustmentsReplaced ==
    [][\A r \in Runs :
         ReparseCompletes(r) =>
             StoredAdjustments(store.bills, run[r].existing)' =
                 AdjustmentDocs(extract_adjustments(run[r].parsed_data))]_vars

\* the same for refresh_bill alone
C28_RefreshReplaces ==
    [][\A r \in Runs :
         ReparseCompletes(r) /\ run[r].kind = "refresh" =>
             StoredAdjustments(store.bills, run[r].existing)' =
                 AdjustmentDocs(extract_adjustments(run[r].parsed_data))]_vars


\* no two bill documents of the collection have the same bill_date
OneDocumentPerBillDate ==
    \A id, other \in 1..Len(store.bills) :
        store.bills[id].bill_date = store.bills[other].bill_date
            => id = other

\* no two rows of the table of bills have the same pdf_path
C29_OneRowPerPdfPath ==
    \A id, other \in 1..Len(store.rows) :
        store.rows[id].pdf_path = store.rows[other].pdf_path => id = other

\* C29: whatever the order and the interleaving of the scrape and sync
\* runs, there is at most one bill record per bill: one document per
\* bill_date, one row per pdf_path.
C29_OneRecordPerBill == OneDocumentPerBillDate /\ C29_OneRowPerPdfPath

\* two calls of sync_all_bills both parsed the file of one bill, and one
\* row was created
C29_SyncRace ==
    /\ \A r \in Runs : run[r].kind = "sync" /\ run[r].pc = "done"
    /\ run["r2"].errors = <<"IntegrityError">>
    /\ Len(store.rows) = 1


\* the requests to /scrape that were answered
Scraped == {r \in Runs : run[r].kind = "scrape" /\ run[r].pc = "done"}

\* the loop of r came to every bill the site listed
EveryBillReached(r) == run[r].i >= Len(run[r].bills)

\* the answer to r tells the bills r created and those it updated
StoredReported(r) ==
    /\ "seattle_utilities" \in DOMAIN run[r].response
    /\ run[r].response.seattle_utilities.new_bills = run[r].new_bills
    /\ run[r].response.seattle_utilities.updated_bills =
           run[r].updated_bills

\* C30: in scrape_seattle_utilities a bill whose parse fails does not keep
\* the loop from the bills after it, and the answer of the run still tells
\* the bills the run stored.
C30_FailedParseSkipsOneBill ==
    \A r \in Scraped :
        /\ EveryBillReached(r)
        /\ run[r].new_bills \o run[r].updated_bills # <<>>
             => StoredReported(r)

\* the answer of a run that stored a bill and whose parses all returned
C30_AllParsed ==
    \E r \in Scraped :
        /\ Len(run[r].new_bills) = 2
        /\ StoredReported(r)

=============================================================================
